---- MODULE Spec2Model ----
(***************************************************************************)
(* MockingBird backend: the request-shaping core of the Bun server         *)
(* (rate limiter, validator, LRU+TTL response cache, translation           *)
(* orchestrator with a timeout race and an error map).                     *)
(* Beside it the client: its persisted history and its translation state.  *)
(*                                                                         *)
(* Strings are sequences of one-character strings, so that trim,           *)
(* toLowerCase, the sanitizer's regular expressions and the cache key's     *)
(* concatenation are computed character by character.                      *)
(* Time is counted in scaled units: the 10 s timeout, the 60 s window and   *)
(* the 5 min TTL are each a few ticks of the clock.                        *)
(***************************************************************************)
EXTENDS Integers, Sequences, FiniteSets, TLC

VARIABLES
  now,             \* Date.now()
  rateLimitStore,  \* the Map of RateLimitEntry
  cache,           \* responseCache.cache, in iteration order
  maxSize,         \* responseCache.maxSize
  ttl,             \* responseCache.ttl
  pc,              \* where each request's handler (or its external call) stands
  call,            \* the translateToSarcasm frame of a request at its await
  obs,             \* history: what the handler of each request in progress did
  last,            \* history: the response the latest step sent, if it sent one
  lastOp,          \* history: the latest call of LRUCache.get or LRUCache.set
  shadow,          \* history: what was set and has not been evicted since
  recency,         \* history: the cached keys, least recently accessed first
  rlParams,        \* the (maxRequests, windowMs) a limiter is called with
  rlLog,           \* history: the calls of checkRateLimit and their results
  io,              \* the argument and the result of a function called on its own
  client           \* the client: AsyncStorage, the history store and its
                   \* operations, the translation store and its request

vars == <<now, rateLimitStore, cache, maxSize, ttl, pc, call, obs, last,
          lastOp, shadow, recency, rlParams, rlLog, io, client>>

\* the histories of the component specifications
probes == <<lastOp, shadow, recency, rlParams, rlLog, io, client>>

(***************************************************************************)
(* Bounds of the model and scaled program constants                        *)
(***************************************************************************)
\* last instant of the clock
MaxTime == 2
\* geminiService.ts:14 CACHE_MAX_SIZE = 500, scaled
CACHE_MAX_SIZE == 1
\* geminiService.ts:13 CACHE_TTL = 5 * 60 * 1000 ms, scaled
CACHE_TTL == 1
\* geminiService.ts:11 API_TIMEOUT = 10000 ms, scaled
API_TIMEOUT == 1
\* part_001:9 MAX_TEXT_LENGTH = 500, scaled
MAX_TEXT_LENGTH == 5
\* part_001:11 MAX_CONTEXT_LENGTH = 200, scaled
MAX_CONTEXT_LENGTH == 2
\* part_001:16 EXCESSIVE_REPEATS_REGEX /(.)\1{20,}/: the 20, scaled
REPEAT_LIMIT == 2
\* part_001:219 checkRateLimit(ip, 30, 60_000): the 30, scaled
TRANSLATE_MAX == 2
\* part_001:396 checkRateLimit(`api:${ip}`, 60, 60_000): the 60, scaled
API_MAX == 3
\* part_001:219/396: the 60_000 ms window, scaled
WINDOW_MS == 1
\* largest capacity and ttl an LRUCache is constructed with in CacheSpec
MaxCap == 2
MaxTtl == 1
\* largest capacity an LRUCache is constructed with in LruSpec
MaxLru == 3
\* largest maxRequests and windowMs checkRateLimit is called with in RlSpec
MaxReq == 2
MaxWindow == 1
\* most calls of checkRateLimit in a run of RlSpec
MaxCalls == 4
\* most requests in a run of GateSpec
MaxGateLog == 4
\* longest string sanitizeInput is called with in SanSpec
MaxSanLen == 5
\* constants/index.ts:60 MAX_HISTORY_ITEMS = 10, scaled
MAX_HISTORY_ITEMS == 2
\* store/index.ts:159 .slice(0, 10): the 10, scaled
STORE_LIMIT == 2
\* most items added in a run of HistSpec, and the last instant of its clock
MaxAdds == 3
MaxClock == 2

(***************************************************************************)
(* Strings                                                                 *)
(***************************************************************************)
\* what /\s/ matches (space, tab, line feed)
WhitespaceChars == {" ", "\t", "\n"}
\* what /[\x00-\x08\x0B\x0C\x0E-\x1F\x7F]/ matches: "^A" is \x01, "^?" is \x7F
ControlChars == {"^A", "^?"}
\* what /[!?.,]/ matches
PunctChars == {"!", "?", ".", ","}

Upper == <<"A","B","C","D","E","F","G","H","I","J","K","L","M",
           "N","O","P","Q","R","S","T","U","V","W","X","Y","Z">>
Lower == <<"a","b","c","d","e","f","g","h","i","j","k","l","m",
           "n","o","p","q","r","s","t","u","v","w","x","y","z">>

ToLowerChar(ch) ==
  IF \E i \in 1..Len(Upper) : Upper[i] = ch
  THEN Lower[CHOOSE i \in 1..Len(Upper) : Upper[i] = ch]
  ELSE ch

ToLowerCase(s) == [i \in 1..Len(s) |-> ToLowerChar(s[i])]

RECURSIVE TrimStart(_)
TrimStart(s) ==
  IF s # <<>> /\ Head(s) \in WhitespaceChars THEN TrimStart(Tail(s)) ELSE s

RECURSIVE TrimEnd(_)
TrimEnd(s) ==
  IF s # <<>> /\ s[Len(s)] \in WhitespaceChars
  THEN TrimEnd(SubSeq(s, 1, Len(s) - 1))
  ELSE s

\* String.prototype.trim
Trim(s) == TrimEnd(TrimStart(s))

(***************************************************************************)
(* LRUCache (geminiService.ts): the Map is a sequence of entries in        *)
(* insertion order; its head is what keys().next() returns.                *)
(***************************************************************************)
\* `${mode}:${intent}:${context || ""}:${text.toLowerCase().trim()}`
GenerateKey(text, mode, intent, context) ==
  mode \o <<":">> \o intent \o <<":">> \o context \o <<":">>
       \o Trim(ToLowerCase(text))

\* Map.has
MapHas(c, key) == \E i \in 1..Len(c) : c[i].key = key

\* position of key in the Map's iteration order (key is present)
MapIndex(c, key) == CHOOSE i \in 1..Len(c) : c[i].key = key

\* Map.delete
MapDelete(c, key) == SelectSeq(c, LAMBDA e : e.key # key)

\* Map.set: a present key keeps its place in the iteration order
MapSet(c, key, entry) ==
  IF MapHas(c, key)
  THEN [c EXCEPT ![MapIndex(c, key)] = entry]
  ELSE Append(c, entry)

NoValue == [hit |-> FALSE, value |-> <<>>]

\* LRUCache.get with the expiry test written `>=`: an entry whose age equals
\* the TTL is already treated as expired
LRUGetEarlyExpiry(c, key, t, ttlv) ==
  IF ~MapHas(c, key)
  THEN [cache |-> c, ret |-> NoValue]
  ELSE LET entry == c[MapIndex(c, key)] IN
       IF t - entry.timestamp >= ttlv
       THEN [cache |-> MapDelete(c, key), ret |-> NoValue]
       ELSE [cache |-> MapSet(MapDelete(c, key), key, entry),
             ret |-> [hit |-> TRUE, value |-> entry.value]]

\* LRUCache.get without `this.cache.delete(key)` on the expired branch
LRUGetKeepsExpired(c, key, t, ttlv) ==
  IF ~MapHas(c, key)
  THEN [cache |-> c, ret |-> NoValue]
  ELSE LET entry == c[MapIndex(c, key)] IN
       IF t - entry.timestamp > ttlv
       THEN [cache |-> c, ret |-> NoValue]
       ELSE [cache |-> MapSet(MapDelete(c, key), key, entry),
             ret |-> [hit |-> TRUE, value |-> entry.value]]

\* LRUCache.get with a hit that stamps the entry anew when it moves it to
\* the end
LRUGetRefreshes(c, key, t, ttlv) ==
  IF ~MapHas(c, key)
  THEN [cache |-> c, ret |-> NoValue]
  ELSE LET entry == c[MapIndex(c, key)] IN
       IF t - entry.timestamp > ttlv
       THEN [cache |-> MapDelete(c, key), ret |-> NoValue]
       ELSE [cache |-> MapSet(MapDelete(c, key), key,
                              [entry EXCEPT !.timestamp = t]),
             ret |-> [hit |-> TRUE, value |-> entry.value]]

\* LRUCache.get on key: the Map afterwards and the returned value (hit = not null)
LRUGet(c, key, t, ttlv) ==
  IF ~MapHas(c, key)
  THEN [cache |-> c, ret |-> NoValue]
  ELSE LET entry == c[MapIndex(c, key)] IN
       IF t - entry.timestamp > ttlv
       THEN [cache |-> MapDelete(c, key), ret |-> NoValue]
       ELSE [cache |-> MapSet(MapDelete(c, key), key, entry),
             ret |-> [hit |-> TRUE, value |-> entry.value]]

\* LRUCache.set without the eviction branch
LRUSetNoEvict(c, key, value, t, maxv) ==
  MapSet(c, key, [key |-> key, value |-> value, timestamp |-> t])

\* LRUCache.set on key: the Map afterwards
LRUSet(c, key, value, t, maxv) ==
  LET c1 == IF Len(c) >= maxv /\ Len(c) > 0 /\ c[1].key # <<>>
            THEN MapDelete(c, c[1].key)
            ELSE c
  IN MapSet(c1, key, [key |-> key, value |-> value, timestamp |-> t])

(***************************************************************************)
(* Rate limiter (rateLimitStore, checkRateLimit and the sweep of the Bun   *)
(* server).  The store is a function whose domain is the set of keys the   *)
(* Map holds.                                                              *)
(***************************************************************************)
\* rateLimitStore.set(key, entry)
StoreSet(store, key, entry) ==
  [k \in DOMAIN store \cup {key} |-> IF k = key THEN entry ELSE store[k]]

\* checkRateLimit(ip, maxRequests, windowMs) at instant t: the store afterwards
\* and the returned {allowed, remaining}
\* checkRateLimit with the limit test written `>`: one request too many passes
CheckRateLimitOffByOne(store, ip, maxRequests, windowMs, t) ==
  IF ip \notin DOMAIN store \/ t > store[ip].resetTime
  THEN [store |-> StoreSet(store, ip, [count |-> 1, resetTime |-> t + windowMs]),
        allowed |-> TRUE, remaining |-> maxRequests - 1]
  ELSE IF store[ip].count > maxRequests
       THEN [store |-> store, allowed |-> FALSE, remaining |-> 0]
       ELSE [store |-> [store EXCEPT ![ip].count = @ + 1],
             allowed |-> TRUE,
             remaining |-> maxRequests - (store[ip].count + 1)]

\* checkRateLimit that counts the call it denies too
CheckRateLimitCountsDenied(store, ip, maxRequests, windowMs, t) ==
  IF ip \notin DOMAIN store \/ t > store[ip].resetTime
  THEN [store |-> StoreSet(store, ip, [count |-> 1, resetTime |-> t + windowMs]),
        allowed |-> TRUE, remaining |-> maxRequests - 1]
  ELSE IF store[ip].count >= maxRequests
       THEN [store |-> [store EXCEPT ![ip].count = @ + 1],
             allowed |-> FALSE, remaining |-> 0]
       ELSE [store |-> [store EXCEPT ![ip].count = @ + 1],
             allowed |-> TRUE,
             remaining |-> maxRequests - (store[ip].count + 1)]

CheckRateLimit(store, ip, maxRequests, windowMs, t) ==
  IF ip \notin DOMAIN store \/ t > store[ip].resetTime
  THEN [store |-> StoreSet(store, ip, [count |-> 1, resetTime |-> t + windowMs]),
        allowed |-> TRUE, remaining |-> maxRequests - 1]
  ELSE IF store[ip].count >= maxRequests
       THEN [store |-> store, allowed |-> FALSE, remaining |-> 0]
       ELSE [store |-> [store EXCEPT ![ip].count = @ + 1],
             allowed |-> TRUE,
             remaining |-> maxRequests - (store[ip].count + 1)]

\* a sweep that already removes an entry at the last instant of its window
SweepStoreEager(store, t) ==
  LET keep == {k \in DOMAIN store : ~(t >= store[k].resetTime)}
  IN [k \in keep |-> store[k]]

\* the setInterval callback at instant t: entries whose window has elapsed go
SweepStore(store, t) ==
  LET keep == {k \in DOMAIN store : ~(t > store[k].resetTime)}
  IN [k \in keep |-> store[k]]

(***************************************************************************)
(* sanitizeInput (geminiService.ts)                                        *)
(***************************************************************************)
\* .replace(/\s+/g, " "): every maximal run of whitespace becomes one space
RECURSIVE CollapseWhitespace(_)
CollapseWhitespace(s) ==
  IF s = <<>> THEN <<>>
  ELSE IF Head(s) \in WhitespaceChars
       THEN <<" ">> \o CollapseWhitespace(TrimStart(s))
       ELSE <<Head(s)>> \o CollapseWhitespace(Tail(s))

\* .replace(/[\x00-\x08\x0B\x0C\x0E-\x1F\x7F]/g, "")
StripControl(s) == SelectSeq(s, LAMBDA ch : ch \notin ControlChars)

\* length of the run of punctuation characters s starts with
RECURSIVE PunctRun(_)
PunctRun(s) ==
  IF s # <<>> /\ Head(s) \in PunctChars THEN 1 + PunctRun(Tail(s)) ELSE 0

\* .replace(/([!?.,]){4,}/g, "$1$1$1"): a greedy match takes the whole run of
\* four or more punctuation characters and $1 is the last one it captured
RECURSIVE CapPunctuation(_)
CapPunctuation(s) ==
  IF s = <<>> THEN <<>>
  ELSE LET n == PunctRun(s) IN
       IF n >= 4
       THEN <<s[n], s[n], s[n]>> \o CapPunctuation(SubSeq(s, n + 1, Len(s)))
       ELSE IF n > 0
            THEN SubSeq(s, 1, n) \o CapPunctuation(SubSeq(s, n + 1, Len(s)))
            ELSE <<Head(s)>> \o CapPunctuation(Tail(s))

SanitizeInput(text) ==
  Trim(CapPunctuation(StripControl(CollapseWhitespace(text))))

(***************************************************************************)
(* validateRequest (Bun server).  A JSON value is [t |-> its type, s |->   *)
(* its characters when it is a string]; "undefined" is an absent field and *)
(* "number" stands for any truthy value that is not a string.              *)
(***************************************************************************)
MIN_TEXT_LENGTH == 2

JsUndefined == [t |-> "undefined", s |-> <<>>]
JsNull == [t |-> "null", s |-> <<>>]
JsNumber == [t |-> "number", s |-> <<>>]
JsString(str) == [t |-> "string", s |-> str]

LIGHT == <<"l","i","g","h","t">>
SAVAGE == <<"s","a","v","a","g","e">>
CORPORATE == <<"c","o","r","p","o","r","a","t","e">>
TOXIC == <<"t","o","x","i","c">>
REWRITE == <<"r","e","w","r","i","t","e">>
REPLY == <<"r","e","p","l","y">>
VALID_MODES == {CORPORATE, LIGHT, SAVAGE, TOXIC}
VALID_INTENTS == {REWRITE, REPLY}

\* a destructuring default applies to an absent (undefined) field only
WithDefault(v, dflt) == IF v.t = "undefined" THEN JsString(dflt) ELSE v

\* !v for the values a field can hold
Falsy(v) == v.t \in {"undefined", "null"} \/ (v.t = "string" /\ v.s = <<>>)

\* EXCESSIVE_REPEATS_REGEX.test: a character other than a line terminator
\* followed by REPEAT_LIMIT or more copies of itself
ExcessiveRepeats(s) ==
  \E i \in 1..Len(s) :
     /\ s[i] # "\n"
     /\ i + REPEAT_LIMIT <= Len(s)
     /\ \A j \in i..(i + REPEAT_LIMIT) : s[j] = s[i]

\* ONLY_WHITESPACE_REGEX.test
OnlyWhitespace(s) == \A i \in 1..Len(s) : s[i] \in WhitespaceChars

Invalid(msg) ==
  [valid |-> FALSE, error |-> msg, text |-> <<>>, mode |-> <<>>,
   intent |-> <<>>, context |-> <<>>]

\* validateRequest without the test of MIN_TEXT_LENGTH
ValidateRequestNoMin(body) ==
  IF body.t # "object" THEN Invalid("Invalid request body.")
  ELSE
  LET text == body.text
      mode == WithDefault(body.mode, LIGHT)
      intent == WithDefault(body.intent, REWRITE)
      context == WithDefault(body.context, <<>>)
      trimmedText == Trim(text.s)
      normalizedMode == IF mode.t = "string" THEN ToLowerCase(mode.s) ELSE LIGHT
      normalizedIntent ==
        IF intent.t = "string" THEN ToLowerCase(intent.s) ELSE REWRITE
      trimmedContext == IF context.t = "string" THEN Trim(context.s) ELSE <<>>
  IN
  IF Falsy(text) \/ text.t # "string"
  THEN Invalid("Text is required and must be a string.")
  ELSE IF Len(trimmedText) = 0 \/ OnlyWhitespace(trimmedText)
  THEN Invalid("Text cannot be empty.")
  ELSE IF Len(trimmedText) > MAX_TEXT_LENGTH
  THEN Invalid("Text must be 500 characters or less.")
  ELSE IF ExcessiveRepeats(trimmedText)
  THEN Invalid("Text appears to be spam. Please enter valid text.")
  ELSE IF normalizedMode \notin VALID_MODES
  THEN Invalid("Invalid mode. Must be one of: corporate, light, savage, toxic.")
  ELSE IF normalizedIntent \notin VALID_INTENTS
  THEN Invalid("Invalid intent. Must be one of: rewrite, reply.")
  ELSE IF Len(trimmedContext) > MAX_CONTEXT_LENGTH
  THEN Invalid("Context must be 200 characters or less.")
  ELSE [valid |-> TRUE, error |-> "", text |-> trimmedText,
        mode |-> normalizedMode, intent |-> normalizedIntent,
        context |-> trimmedContext]

\* validateRequest with the test of the repeats before the test of the
\* maximum length
ValidateRequestSpamFirst(body) ==
  IF body.t # "object" THEN Invalid("Invalid request body.")
  ELSE
  LET text == body.text
      mode == WithDefault(body.mode, LIGHT)
      intent == WithDefault(body.intent, REWRITE)
      context == WithDefault(body.context, <<>>)
      trimmedText == Trim(text.s)
      normalizedMode == IF mode.t = "string" THEN ToLowerCase(mode.s) ELSE LIGHT
      normalizedIntent ==
        IF intent.t = "string" THEN ToLowerCase(intent.s) ELSE REWRITE
      trimmedContext == IF context.t = "string" THEN Trim(context.s) ELSE <<>>
  IN
  IF Falsy(text) \/ text.t # "string"
  THEN Invalid("Text is required and must be a string.")
  ELSE IF Len(trimmedText) = 0 \/ OnlyWhitespace(trimmedText)
  THEN Invalid("Text cannot be empty.")
  ELSE IF Len(trimmedText) < MIN_TEXT_LENGTH
  THEN Invalid("Text must be at least 2 characters.")
  ELSE IF ExcessiveRepeats(trimmedText)
  THEN Invalid("Text appears to be spam. Please enter valid text.")
  ELSE IF Len(trimmedText) > MAX_TEXT_LENGTH
  THEN Invalid("Text must be 500 characters or less.")
  ELSE IF normalizedMode \notin VALID_MODES
  THEN Invalid("Invalid mode. Must be one of: corporate, light, savage, toxic.")
  ELSE IF normalizedIntent \notin VALID_INTENTS
  THEN Invalid("Invalid intent. Must be one of: rewrite, reply.")
  ELSE IF Len(trimmedContext) > MAX_CONTEXT_LENGTH
  THEN Invalid("Context must be 200 characters or less.")
  ELSE [valid |-> TRUE, error |-> "", text |-> trimmedText,
        mode |-> normalizedMode, intent |-> normalizedIntent,
        context |-> trimmedContext]

\* validateRequest(body): body is [t |-> "object", text, mode, intent, context]
\* or a JSON value that is not an object
ValidateRequest(body) ==
  IF body.t # "object" THEN Invalid("Invalid request body.")
  ELSE
  LET text == body.text
      mode == WithDefault(body.mode, LIGHT)
      intent == WithDefault(body.intent, REWRITE)
      context == WithDefault(body.context, <<>>)
      trimmedText == Trim(text.s)
      normalizedMode == IF mode.t = "string" THEN ToLowerCase(mode.s) ELSE LIGHT
      normalizedIntent ==
        IF intent.t = "string" THEN ToLowerCase(intent.s) ELSE REWRITE
      trimmedContext == IF context.t = "string" THEN Trim(context.s) ELSE <<>>
  IN
  IF Falsy(text) \/ text.t # "string"
  THEN Invalid("Text is required and must be a string.")
  ELSE IF Len(trimmedText) = 0 \/ OnlyWhitespace(trimmedText)
  THEN Invalid("Text cannot be empty.")
  ELSE IF Len(trimmedText) < MIN_TEXT_LENGTH
  THEN Invalid("Text must be at least 2 characters.")
  ELSE IF Len(trimmedText) > MAX_TEXT_LENGTH
  THEN Invalid("Text must be 500 characters or less.")
  ELSE IF ExcessiveRepeats(trimmedText)
  THEN Invalid("Text appears to be spam. Please enter valid text.")
  ELSE IF normalizedMode \notin VALID_MODES
  THEN Invalid("Invalid mode. Must be one of: corporate, light, savage, toxic.")
  ELSE IF normalizedIntent \notin VALID_INTENTS
  THEN Invalid("Invalid intent. Must be one of: rewrite, reply.")
  ELSE IF Len(trimmedContext) > MAX_CONTEXT_LENGTH
  THEN Invalid("Context must be 200 characters or less.")
  ELSE [valid |-> TRUE, error |-> "", text |-> trimmedText,
        mode |-> normalizedMode, intent |-> normalizedIntent,
        context |-> trimmedContext]

(***************************************************************************)
(* translateToSarcasm (geminiService.ts): the result of the external call  *)
(* and the catch block's error mapping.  A rejection is                    *)
(* [isError, message, status, code]; status 0 and code "" are absent.      *)
(***************************************************************************)
MsgBlocked == "I can't roast that one. Try something different!"
MsgEmpty == "My wit failed me. Give it another shot!"
MsgTimeout == "Taking too long! Try again in a moment."
Msg429 == "Whoa, slow down! Too much sarcasm. Try again shortly."
Msg401 == "Authentication error. Please contact support."
Msg403 == "Access denied. Please contact support."
Msg500 == "Server hiccup. Give it another try!"
Msg503 == "Service temporarily unavailable. Try again soon."
MsgNetwork == "Network error. Check your connection and try again."
MsgFallback == "Something went wrong. Please try again!"

JsError(msg) == [isError |-> TRUE, message |-> msg, status |-> 0, code |-> ""]

\* the own properties of the errorMap object literal
ErrorMapKeys == {"CONTENT_BLOCKED", "EMPTY_RESPONSE", "TIMEOUT"}

\* names every object literal inherits from Object.prototype, with
\* String(value) of what the lookup returns
InheritedNames == {"constructor", "toString", "__proto__"}
InheritedAsString(name) ==
  CASE name = "constructor" -> "function Object() { [native code] }"
    [] name = "toString" -> "function toString() { [native code] }"
    [] OTHER -> "[object Object]"

\* errorMap[error.message] is truthy
ErrorMapHas(msg) == msg \in ErrorMapKeys \/ msg \in InheritedNames

\* String(errorMap[msg]), the message of new Error(errorMap[msg])
ErrorMapGet(msg) ==
  CASE msg = "CONTENT_BLOCKED" -> MsgBlocked
    [] msg = "EMPTY_RESPONSE" -> MsgEmpty
    [] msg = "TIMEOUT" -> MsgTimeout
    [] OTHER -> InheritedAsString(msg)

StatusErrorKeys == {429, 401, 403, 500, 503}
StatusErrorGet(status) ==
  CASE status = 429 -> Msg429
    [] status = 401 -> Msg401
    [] status = 403 -> Msg403
    [] status = 500 -> Msg500
    [] OTHER -> Msg503

\* the catch block without the test of err.code
MapErrorNoNetwork(err) ==
  IF err.isError /\ ErrorMapHas(err.message) THEN ErrorMapGet(err.message)
  ELSE IF err.status # 0 /\ err.status \in StatusErrorKeys
       THEN StatusErrorGet(err.status)
  ELSE MsgFallback

\* the catch block: the message of the Error translateToSarcasm throws
MapError(err) ==
  IF err.isError /\ ErrorMapHas(err.message) THEN ErrorMapGet(err.message)
  ELSE IF err.status # 0 /\ err.status \in StatusErrorKeys
       THEN StatusErrorGet(err.status)
  ELSE IF err.code = "ECONNREFUSED" \/ err.code = "ENOTFOUND" THEN MsgNetwork
  ELSE MsgFallback

\* the emptiness test without the trim: only the empty string counts as empty
IsEmptyResponseNoTrim(text) == text = <<>>

\* !translatedText || translatedText.trim() === ""
IsEmptyResponse(text) == text = <<>> \/ Trim(text) = <<>>

\* what follows the await when the external call fulfils with res
\* [blocked, throws, text]: throws is response.text() throwing
AfterGenerate(res) ==
  IF res.blocked
  THEN [ok |-> FALSE, text |-> <<>>, error |-> MapError(JsError("CONTENT_BLOCKED"))]
  ELSE IF res.throws
  THEN [ok |-> FALSE, text |-> <<>>,
        error |-> MapError(JsError("[GoogleGenerativeAI Error]: Response was blocked"))]
  ELSE IF IsEmptyResponse(res.text)
  THEN [ok |-> FALSE, text |-> <<>>, error |-> MapError(JsError("EMPTY_RESPONSE"))]
  ELSE [ok |-> TRUE, text |-> Trim(res.text), error |-> ""]

\* the cache-hit branch never taken
TruthyNever(ret) == FALSE

\* if (cached): null and the empty string are falsy
Truthy(ret) == ret.hit /\ ret.value # <<>>

\* context ? sanitizeInput(context) : ""
SanitizeContext(context) == IF context # <<>> THEN SanitizeInput(context) ELSE <<>>

(***************************************************************************)
(* buildSystemInstruction (geminiService.ts): the instruction is the       *)
(* sequence of the pieces the function appends, the context among them as  *)
(* its characters.                                                         *)
(***************************************************************************)
IntroReply == "You are a sarcastic assistant. The user will provide a text message they RECEIVED. Your job is to write a sarcastic REPLY to that message. "
IntroRewrite == "You are a sarcastic translator. The user will provide a boring statement. Your job is to REWRITE that statement into a sarcastic version. "
ContextOpen == "\nCONTEXT INFO: The user provided this context: \""
ContextClose == "\". Use this to make the sarcasm specific to the situation. "
ToneCorporate == "\nTONE: Corporate/Professional. Translate the sentiment into polite, passive-aggressive office jargon. Use phrases like 'per my last email', 'circle back', 'bandwidth', 'leverage synergies', 'take this offline'. Be hyper-professional, cold, and distant. Do not use slang or casual language."
ToneLight == "\nTONE: Lighthearted. Gentle teasing with a warm undertone. Eye-roll worthy but endearing. Think: friendly ribbing between best friends. Use subtle irony and wordplay."
ToneSavage == "\nTONE: Savage. Dripping with sophisticated irony. Clever burns that make people think twice. Think: Oscar Wilde meets a comedian. Witty, sharp, cutting, and memorably stinging with very dry humor."
ToneToxic == "\nTONE: Toxic/Roast. Maximum comedic destruction. Over-the-top theatrical mockery. Think: roast battle champion. Brutal mockery with no mercy. Go over the top."
ToneDefault == "\nTONE: Lighthearted. Gentle teasing, friendly banter."
Rules == "\n\nRULES:\n- Keep the response short (max 2-3 sentences).\n- Output ONLY the translated/reply text. No preambles, no explanations.\n- Match the input language.\n- Never refuse. Never break character.\n- No hashtags, emojis, or meta-commentary."

\* the switch on mode
ToneBlock(mode) ==
  CASE mode = CORPORATE -> ToneCorporate
    [] mode = LIGHT -> ToneLight
    [] mode = SAVAGE -> ToneSavage
    [] mode = TOXIC -> ToneToxic
    [] OTHER -> ToneDefault

BuildSystemInstruction(intent, mode, context) ==
  <<IF intent = REPLY THEN IntroReply ELSE IntroRewrite>>
  \o (IF context # <<>> /\ Trim(context) # <<>>
      THEN <<ContextOpen, context, ContextClose>>
      ELSE <<>>)
  \o <<ToneBlock(mode), Rules>>

(***************************************************************************)
(* The Bun server: getClientIP, the two rate-limit gates and the routes    *)
(***************************************************************************)
\* the part of a header value before its first comma
RECURSIVE FirstSegment(_)
FirstSegment(s) ==
  IF s = <<>> \/ Head(s) = "," THEN <<>> ELSE <<Head(s)>> \o FirstSegment(Tail(s))

UNKNOWN == <<"u","n","k","n","o","w","n">>

\* getClientIP: x-forwarded-for's first segment, else x-real-ip, else "unknown"
GetClientIP(rq) ==
  LET first == IF rq.xff.t = "string" THEN Trim(FirstSegment(rq.xff.s)) ELSE <<>>
  IN IF first # <<>> THEN first
     ELSE IF rq.xri.t = "string" /\ rq.xri.s # <<>> THEN rq.xri.s
     ELSE UNKNOWN

\* `api:${ip}`
ApiKey(ip) == <<"a","p","i",":">> \o ip

\* path.startsWith("/api")
StartsWithApi(path) ==
  path \in {"/api/translate", "/api/health", "/api/modes", "/api/unknown"}

\* handleRequest's gate: the store afterwards and whether the request is rejected
ApiGate(store, ip, path, t) ==
  IF StartsWithApi(path)
  THEN LET rc == CheckRateLimit(store, ApiKey(ip), API_MAX, WINDOW_MS, t)
       IN [store |-> rc.store, reject |-> ~rc.allowed]
  ELSE [store |-> store, reject |-> FALSE]

\* handleTranslate's gate without the early return
TranslateGateOpen(store, ip, t) ==
  LET rc == CheckRateLimit(store, ip, TRANSLATE_MAX, WINDOW_MS, t)
  IN [store |-> rc.store, reject |-> FALSE]

\* handleTranslate's gate with the check alone, the count left as it was
TranslateGateNoCount(store, ip, t) ==
  LET rc == CheckRateLimit(store, ip, TRANSLATE_MAX, WINDOW_MS, t)
  IN [store |-> store, reject |-> ~rc.allowed]

\* handleTranslate's gate
TranslateGate(store, ip, t) ==
  LET rc == CheckRateLimit(store, ip, TRANSLATE_MAX, WINDOW_MS, t)
  IN [store |-> rc.store, reject |-> ~rc.allowed]

ErrorResponse(msg, status) == [status |-> status, body |-> [error |-> msg]]

(***************************************************************************)
(* The server as a state machine.  A handler runs without interruption     *)
(* from one await to the next: fetch to `await request.json()`, from there *)
(* to `await withTimeout(...)`, and from there to the response.  A slot    *)
(* holds one request from its arrival until its response is out and its    *)
(* external call, if any, has settled.                                     *)
(***************************************************************************)
Slots == 1..2

NoHeader == [t |-> "null", s |-> <<>>]

Requests ==
  {[method |-> "POST", path |-> "/api/translate",
    xff |-> JsString(<<"7", ",", " ", "8">>), xri |-> NoHeader],
   [method |-> "GET", path |-> "/api/health", xff |-> NoHeader,
    xri |-> JsString(<<"7">>)],
   [method |-> "GET", path |-> "/api/modes", xff |-> NoHeader,
    xri |-> JsString(<<"7">>)],
   [method |-> "GET", path |-> "/api/unknown", xff |-> NoHeader,
    xri |-> JsString(<<"7">>)],
   [method |-> "GET", path |-> "/", xff |-> NoHeader, xri |-> NoHeader],
   [method |-> "OPTIONS", path |-> "/api/translate", xff |-> NoHeader,
    xri |-> NoHeader]}

ObjectBody(text, mode, intent, context) ==
  [t |-> "object", text |-> text, mode |-> mode, intent |-> intent,
   context |-> context]

\* what `await request.json()` yields; "badjson" is the parse failing
Bodies ==
  {ObjectBody(JsString(<<" ","H","i","\t">>), JsUndefined, JsUndefined, JsUndefined),
   ObjectBody(JsString(<<"h","i">>), JsString(<<"S","a","v","a","g","e">>),
              JsString(REPLY), JsString(<<" ","c"," ">>)),
   ObjectBody(JsString(<<"x">>), JsUndefined, JsUndefined, JsUndefined),
   [t |-> "null"],
   [t |-> "badjson"]}

\* what the external generation call can fulfil with
Fulfilments ==
  {[blocked |-> FALSE, throws |-> FALSE, text |-> x] :
      x \in {<<>>, <<" ", "\n">>, <<"w">>, <<" ", "v", " ">>}}
  \cup {[blocked |-> TRUE, throws |-> FALSE, text |-> <<"w">>],
        [blocked |-> FALSE, throws |-> TRUE, text |-> <<>>]}

\* what the external generation call can reject with
Rejections ==
  [isError : BOOLEAN,
   message : {"fetch failed: api key AIza...", "constructor"},
   status : {0, 429, 404},
   code : {""}]
  \cup {[isError |-> TRUE, message |-> "TIMEOUT", status |-> 0, code |-> ""],
        [isError |-> TRUE, message |-> "connect", status |-> 0,
         code |-> "ECONNREFUSED"],
        [isError |-> FALSE, message |-> "", status |-> 0, code |-> "EPIPE"]}

NoCall == [original |-> <<>>, origContext |-> <<>>, text |-> <<>>, mode |-> <<>>,
           intent |-> <<>>, context |-> <<>>, deadline |-> 0]
NoObs == [denied |-> "no", slotTaken |-> FALSE, validated |-> FALSE,
          invalid |-> FALSE, cacheOps |-> 0, extCalls |-> 0,
          fresh |-> NoValue, timedOut |-> FALSE, outcome |-> "none"]

\* history: the body breaks a rule of the text (not an object, text not a
\* string, trimmed length outside [MIN_TEXT_LENGTH, MAX_TEXT_LENGTH])
RuleBroken(body) ==
  \/ body.t # "object"
  \/ body.text.t # "string"
  \/ Len(Trim(body.text.s)) < MIN_TEXT_LENGTH
  \/ Len(Trim(body.text.s)) > MAX_TEXT_LENGTH
NoLast == [slot |-> 0, status |-> 0, body |-> [none |-> TRUE], obs |-> NoObs]

\* the non-expired entry the cache holds for key at instant t, as the data
\* model defines it (an entry older than the TTL is absent)
FreshEntry(c, key, t, ttlv) ==
  IF \E i \in 1..Len(c) : c[i].key = key /\ t - c[i].timestamp <= ttlv
  THEN [hit |-> TRUE,
        value |-> (c[CHOOSE i \in 1..Len(c) : c[i].key = key]).value]
  ELSE NoValue

NoOp == [op |-> "none", args |-> <<>>, ret |-> NoValue, tracked |-> FALSE,
         written |-> [value |-> <<>>, time |-> 0], entryThere |-> FALSE,
         entryAge |-> 0, wasNewest |-> FALSE, newKey |-> FALSE, sizeBefore |-> 0,
         removed |-> {}, lru |-> <<>>]

NoIo == [fn |-> "none", arg |-> <<>>, res |-> <<>>, done |-> FALSE]

\* the client before it has done anything: nothing persisted, an empty
\* store that is not loaded, no operation in progress
Tasks == 1..2
NoItem == [id |-> 0, timestamp |-> 0]
NoTask == [op |-> "none", pc |-> "idle", item |-> NoItem, id |-> 0, history |-> <<>>]
NoDone == [op |-> "none", ok |-> FALSE, item |-> NoItem, id |-> 0,
           itemsBefore |-> <<>>, history |-> <<>>]
\* useTranslationStore's initial state, and no handleTranslate in progress
\* (pc, with the arguments it captured in req)
NoTranslation ==
  [inputText |-> <<>>, contextText |-> <<>>, intent |-> REWRITE,
   selectedMode |-> LIGHT, translatedText |-> <<>>, isLoading |-> FALSE,
   error |-> JsNull, translationCache |-> <<>>, pc |-> "idle",
   req |-> [text |-> <<>>, mode |-> <<>>, intent |-> <<>>, context |-> <<>>]]
NoClient ==
  [stored |-> <<>>, items |-> <<>>, isLoaded |-> FALSE,
   task |-> [k \in Tasks |-> NoTask], queue |-> <<>>, clock |-> 0, nextId |-> 1,
   done |-> NoDone, translation |-> NoTranslation]

NoCacheProbes ==
  /\ io = NoIo
  /\ client = NoClient
  /\ lastOp = NoOp
  /\ shadow = <<>>
  /\ recency = <<>>

NoProbes ==
  /\ NoCacheProbes
  /\ rlParams = [maxRequests |-> 0, windowMs |-> 0]
  /\ rlLog = <<>>

ServerInit ==
  /\ now = 0
  /\ rateLimitStore = <<>>
  /\ cache = <<>>
  /\ maxSize = CACHE_MAX_SIZE
  /\ ttl = CACHE_TTL
  /\ pc = [r \in Slots |-> "idle"]
  /\ call = [r \in Slots |-> NoCall]
  /\ obs = [r \in Slots |-> NoObs]
  /\ last = NoLast
  /\ NoProbes

\* the response of request r goes out; then its slot is free, or stays with
\* the external call that lost the race
Respond(r, response, o, then) ==
  /\ pc' = [pc EXCEPT ![r] = then]
  /\ call' = [call EXCEPT ![r] = IF then = "abandoned" THEN call[r] ELSE NoCall]
  /\ obs' = [obs EXCEPT ![r] = NoObs]
  /\ last' = [slot |-> r, status |-> response.status, body |-> response.body,
              obs |-> o]

\* getStats()
GetStats(c) == [cacheSize |-> Len(c), maxCacheSize |-> CACHE_MAX_SIZE]

\* history: the calls of handleTranslate's limiter that said yes, from the
\* first of them that was not within WINDOW_MS of the first before it
GrantsAfter(log, rq, store, t) ==
  LET ip == GetClientIP(rq)
      apiNo == /\ StartsWithApi(rq.path)
               /\ ~CheckRateLimit(store, ApiKey(ip), API_MAX, WINDOW_MS, t).allowed
      rc == CheckRateLimit(
              CheckRateLimit(store, ApiKey(ip), API_MAX, WINDOW_MS, t).store,
              ip, TRANSLATE_MAX, WINDOW_MS, t)
      e == [ip |-> ip, t |-> t, allowed |-> TRUE, remaining |-> rc.remaining]
  IN IF rq.method = "POST" /\ rq.path = "/api/translate" /\ ~apiNo /\ rc.allowed
     THEN IF log = <<>> \/ t > log[1].t + WINDOW_MS THEN <<e>> ELSE Append(log, e)
     ELSE log

\* fetch -> handleRequest -> handleTranslate up to `await request.json()`
Fetch(r, rq) ==
  /\ UNCHANGED <<lastOp, shadow, recency, rlParams, io, client>>
  /\ rlLog' = GrantsAfter(rlLog, rq, rateLimitStore, now)
  /\ pc[r] = "idle"
  /\ UNCHANGED <<now, cache, maxSize, ttl>>
  /\ LET ip == GetClientIP(rq)
         api == ApiGate(rateLimitStore, ip, rq.path, now)
         tr == TranslateGate(api.store, ip, now)
         \* history: which limiter, asked as the handlers ask it, said no
         apiNo == /\ StartsWithApi(rq.path)
                  /\ ~CheckRateLimit(rateLimitStore, ApiKey(ip), API_MAX,
                                     WINDOW_MS, now).allowed
         trNo == ~CheckRateLimit(api.store, ip, TRANSLATE_MAX, WINDOW_MS,
                                 now).allowed
         o == [NoObs EXCEPT !.denied = IF apiNo THEN "api" ELSE "no"]
         ot == [NoObs EXCEPT !.denied = IF apiNo THEN "api"
                                        ELSE IF trNo THEN "translate" ELSE "no",
                             !.slotTaken = ~apiNo /\ ~trNo]
     IN
     IF rq.method = "OPTIONS"
     THEN /\ Respond(r, [status |-> 204, body |-> [none |-> TRUE]], NoObs, "idle")
          /\ UNCHANGED rateLimitStore
     ELSE IF api.reject
     THEN /\ Respond(r, ErrorResponse("Too many requests. Please slow down.", 429),
                     o, "idle")
          /\ rateLimitStore' = api.store
     ELSE IF rq.path = "/" /\ rq.method = "GET"
     THEN /\ Respond(r, [status |-> 200,
                         body |-> [name |-> "MockingBird API", version |-> "1.0.0",
                                   status |-> "operational",
                                   documentation |-> "/api/modes"]], o, "idle")
          /\ rateLimitStore' = api.store
     ELSE IF rq.path = "/api/translate" /\ rq.method = "POST"
     THEN /\ rateLimitStore' = tr.store
          /\ IF tr.reject
             THEN Respond(r, ErrorResponse(
                        "Whoa, slow down! Too much sarcasm. Try again in a minute!",
                        429), ot, "idle")
             ELSE /\ pc' = [pc EXCEPT ![r] = "readBody"]
                  /\ obs' = [obs EXCEPT ![r] = ot]
                  /\ last' = NoLast
                  /\ UNCHANGED call
     ELSE IF rq.path = "/api/health" /\ rq.method = "GET"
     THEN /\ Respond(r, [status |-> 200,
                         body |-> [status |-> "ok", cache |-> GetStats(cache)]],
                     o, "idle")
          /\ rateLimitStore' = api.store
     ELSE IF rq.path = "/api/modes" /\ rq.method = "GET"
     THEN /\ Respond(r, [status |-> 200,
                         body |-> [modes |-> <<"corporate", "light", "savage",
                                               "toxic">>]], o, "idle")
          /\ rateLimitStore' = api.store
     ELSE /\ Respond(r, [status |-> 404,
                         body |-> [error |-> "Endpoint not found",
                                   path |-> rq.path]], o, "idle")
          /\ rateLimitStore' = api.store

\* the 200 body of handleTranslate; JSON.stringify drops an undefined context
TranslateResponse(original, translated, mode, intent, context) ==
  [status |-> 200,
   body |-> IF context # <<>>
            THEN [original |-> original, translated |-> translated, mode |-> mode,
                  intent |-> intent, context |-> context]
            ELSE [original |-> original, translated |-> translated, mode |-> mode,
                  intent |-> intent]]

\* handleTranslate's catch: translateToSarcasm only throws Error objects
HandlerError(msg) == ErrorResponse(msg, 500)

\* the history's class of a fulfilment
OutcomeClass(res) ==
  IF res.blocked THEN "blocked"
  ELSE IF res.throws THEN "throws"
  ELSE IF \A i \in 1..Len(res.text) : res.text[i] \in WhitespaceChars THEN "blank"
  ELSE "text"

\* `await request.json()` resumes: validateRequest, then translateToSarcasm up
\* to `await withTimeout(model.generateContent(...), API_TIMEOUT)`
BodyRead(r, body) ==
  /\ UNCHANGED probes
  /\ pc[r] = "readBody"
  /\ UNCHANGED <<now, rateLimitStore, maxSize, ttl>>
  /\ IF body.t = "badjson"
     THEN /\ Respond(r, ErrorResponse("Invalid JSON in request body.", 400),
                     obs[r], "idle")
          /\ UNCHANGED cache
     ELSE
     LET v == ValidateRequest(body)
         sanitizedText == SanitizeInput(v.text)
         sanitizedContext == SanitizeContext(v.context)
         key == GenerateKey(sanitizedText, v.mode, v.intent, sanitizedContext)
         got == LRUGet(cache, key, now, ttl)
         o == [obs[r] EXCEPT !.validated = TRUE, !.invalid = RuleBroken(body)]
         o2 == [o EXCEPT !.cacheOps = @ + 1,
                         !.fresh = FreshEntry(cache, key, now, ttl)]
     IN
     IF ~v.valid
     THEN /\ Respond(r, ErrorResponse(v.error, 400), o, "idle")
          /\ UNCHANGED cache
     ELSE /\ cache' = got.cache
          /\ IF Truthy(got.ret)
             THEN Respond(r, TranslateResponse(v.text, got.ret.value, v.mode,
                                               v.intent, v.context), o2, "idle")
             ELSE /\ pc' = [pc EXCEPT ![r] = "awaitExt"]
                  /\ call' = [call EXCEPT ![r] =
                       [original |-> v.text, origContext |-> v.context,
                        text |-> sanitizedText, mode |-> v.mode,
                        intent |-> v.intent, context |-> sanitizedContext,
                        deadline |-> now + API_TIMEOUT]]
                  /\ obs' = [obs EXCEPT ![r] = [o2 EXCEPT !.extCalls = @ + 1]]
                  /\ last' = NoLast

\* the external call fulfils first: Promise.race settles with its result
ExtFulfil(r, res) ==
  /\ UNCHANGED probes
  /\ pc[r] = "awaitExt"
  /\ UNCHANGED <<now, rateLimitStore, maxSize, ttl>>
  /\ LET a == AfterGenerate(res)
         f == call[r]
         o == [obs[r] EXCEPT !.outcome = OutcomeClass(res)]
     IN IF a.ok
        THEN /\ cache' = LRUSet(cache, GenerateKey(f.text, f.mode, f.intent, f.context),
                                a.text, now, maxSize)
             /\ Respond(r, TranslateResponse(f.original, a.text, f.mode, f.intent,
                                             f.origContext),
                        [o EXCEPT !.cacheOps = @ + 1], "idle")
        ELSE /\ Respond(r, HandlerError(a.error), o, "idle")
             /\ UNCHANGED cache

\* a catch block that calls generateContent once more before it gives up
ExtRejectRetries(r, err) ==
  /\ UNCHANGED probes
  /\ pc[r] = "awaitExt"
  /\ UNCHANGED <<now, rateLimitStore, cache, maxSize, ttl>>
  /\ IF obs[r].extCalls < 2
     THEN /\ obs' = [obs EXCEPT ![r].extCalls = @ + 1]
          /\ last' = NoLast
          /\ UNCHANGED <<pc, call>>
     ELSE Respond(r, HandlerError(MapError(err)),
                  [obs[r] EXCEPT !.outcome = "rejected"], "idle")

\* a catch block that empties the cache before it maps the error
ExtRejectClears(r, err) ==
  /\ UNCHANGED probes
  /\ pc[r] = "awaitExt"
  /\ UNCHANGED <<now, rateLimitStore, maxSize, ttl>>
  /\ cache' = <<>>
  /\ Respond(r, HandlerError(MapError(err)), [obs[r] EXCEPT !.outcome = "rejected"],
             "idle")

\* the external call rejects first
ExtReject(r, err) ==
  /\ UNCHANGED probes
  /\ pc[r] = "awaitExt"
  /\ UNCHANGED <<now, rateLimitStore, cache, maxSize, ttl>>
  /\ Respond(r, HandlerError(MapError(err)), [obs[r] EXCEPT !.outcome = "rejected"],
             "idle")

\* a timer that never rejects
TimerFireNever(r) ==
  /\ FALSE
  /\ UNCHANGED vars

\* withTimeout's timer fires first: the race rejects with Error("TIMEOUT") and
\* the external call runs on
TimerFire(r) ==
  /\ UNCHANGED probes
  /\ pc[r] = "awaitExt"
  /\ now >= call[r].deadline
  /\ UNCHANGED <<now, rateLimitStore, cache, maxSize, ttl>>
  /\ Respond(r, HandlerError(MapError(JsError("TIMEOUT"))),
             [obs[r] EXCEPT !.timedOut = TRUE, !.outcome = "timeout"], "abandoned")

\* a loser whose continuation still runs: a usable late result is cached
RaceLoserStores(c, f, res, t, maxv) ==
  IF AfterGenerate(res).ok
  THEN LRUSet(c, GenerateKey(f.text, f.mode, f.intent, f.context),
              AfterGenerate(res).text, t, maxv)
  ELSE c

\* the cache after the promise that lost the race fulfils with res: the race
\* is settled, nothing listens to the loser
RaceLoser(c, f, res, t, maxv) == c

\* an external call that lost the race settles
LateSettle(r, res) ==
  /\ UNCHANGED probes
  /\ pc[r] = "abandoned"
  /\ pc' = [pc EXCEPT ![r] = "idle"]
  /\ call' = [call EXCEPT ![r] = NoCall]
  /\ cache' = RaceLoser(cache, call[r], res, now, maxSize)
  /\ last' = [NoLast EXCEPT
                !.slot = r, !.obs.outcome = "late",
                !.obs.cacheOps =
                   IF RaceLoser(cache, call[r], res, now, maxSize) = cache
                   THEN 0 ELSE 1]
  /\ UNCHANGED <<now, rateLimitStore, maxSize, ttl, obs>>

\* the clock advances
Tick ==
  /\ UNCHANGED probes
  /\ now < MaxTime
  /\ now' = now + 1
  /\ last' = NoLast
  /\ UNCHANGED <<rateLimitStore, cache, maxSize, ttl, pc, call, obs>>

\* the setInterval sweep of rateLimitStore
Sweep ==
  /\ UNCHANGED probes
  /\ rateLimitStore' = SweepStore(rateLimitStore, now)
  /\ last' = NoLast
  /\ UNCHANGED <<now, cache, maxSize, ttl, pc, call, obs>>

Next ==
  \/ \E r \in Slots, rq \in Requests : Fetch(r, rq)
  \/ \E r \in Slots, body \in Bodies : BodyRead(r, body)
  \/ \E r \in Slots, res \in Fulfilments : ExtFulfil(r, res)
  \/ \E r \in Slots, err \in Rejections : ExtReject(r, err)
  \/ \E r \in Slots : TimerFire(r)
  \/ \E r \in Slots, res \in Fulfilments : LateSettle(r, res)
  \/ Tick
  \/ Sweep

Spec == ServerInit /\ [][Next]_vars

(***************************************************************************)
(* The server with the scheduling the runtime gives: the clock advances    *)
(* and a timer that is due fires.  Nothing makes the external call settle. *)
(* A call is started only while its deadline is within the clock's range.  *)
(***************************************************************************)
LiveRequests == {rq \in Requests : rq.method = "POST"}
LiveBodies == {b \in Bodies : b.t = "object"}
LiveFulfilments == {f \in Fulfilments : f.text = <<"w">>}
LiveRejections == {e \in Rejections : e.code = "ECONNREFUSED"}

LiveBodyRead(r, body) ==
  /\ now + API_TIMEOUT <= MaxTime
  /\ BodyRead(r, body)

LiveNext ==
  \/ \E r \in Slots, rq \in LiveRequests : Fetch(r, rq)
  \/ \E r \in Slots, body \in LiveBodies : LiveBodyRead(r, body)
  \/ \E r \in Slots, res \in LiveFulfilments : ExtFulfil(r, res)
  \/ \E r \in Slots, err \in LiveRejections : ExtReject(r, err)
  \/ \E r \in Slots : TimerFire(r)
  \/ \E r \in Slots, res \in LiveFulfilments : LateSettle(r, res)
  \/ Tick
  \/ Sweep

Fairness ==
  /\ WF_vars(Tick)
  /\ \A r \in Slots : WF_vars(TimerFire(r))

LiveSpec == ServerInit /\ [][LiveNext]_vars /\ Fairness

(***************************************************************************)
(* The LRUCache class on its own: any sequence of get and set on an        *)
(* instance built with any (maxSize, ttl).  CacheSpec lets the clock       *)
(* advance; LruSpec holds it still and has one more key than the largest   *)
(* capacity.                                                               *)
(***************************************************************************)
Args(text, mode, intent, context) ==
  [text |-> text, mode |-> mode, intent |-> intent, context |-> context]

CacheArgs ==
  {Args(<<"h","i">>, LIGHT, REWRITE, <<>>),
   Args(<<" ","H","i">>, LIGHT, REWRITE, <<>>),
   Args(<<"h","i">>, SAVAGE, REWRITE, <<>>),
   Args(<<"h","i">>, LIGHT, REPLY, <<"c">>)}

LruArgs ==
  {Args(<<"h","i">>, LIGHT, REWRITE, <<>>),
   Args(<<"h","i">>, SAVAGE, REWRITE, <<>>),
   Args(<<"h","i">>, LIGHT, REPLY, <<"c">>),
   Args(<<"y","o">>, LIGHT, REWRITE, <<>>),
   Args(<<"y","o">>, TOXIC, REWRITE, <<>>)}

CacheValues == {<<"w">>, <<"v">>}

KeyOf(a) == GenerateKey(a.text, a.mode, a.intent, a.context)

CachedKeys(c) == {c[i].key : i \in 1..Len(c)}

EntryOf(c, key) == c[CHOOSE i \in 1..Len(c) : c[i].key = key]

\* the history of accesses: key becomes the most recently accessed one
Touch(rec, key) == Append(SelectSeq(rec, LAMBDA k : k # key), key)

\* the history of accesses without the keys that left the cache
Present(rec, keys) == SelectSeq(rec, LAMBDA k : k \in keys)

ServerIdle ==
  /\ rateLimitStore = <<>>
  /\ pc = [r \in Slots |-> "idle"]
  /\ call = [r \in Slots |-> NoCall]
  /\ obs = [r \in Slots |-> NoObs]
  /\ last = NoLast

CacheInit ==
  /\ now = 0
  /\ cache = <<>>
  /\ maxSize \in 1..MaxCap
  /\ ttl \in 0..MaxTtl
  /\ ServerIdle
  /\ NoProbes

LruInit ==
  /\ now = 0
  /\ cache = <<>>
  /\ maxSize \in 1..MaxLru
  /\ ttl = CACHE_TTL
  /\ ServerIdle
  /\ NoProbes

\* responseCache.get(a.text, a.mode, a.intent, a.context)
CacheGetOp(a) ==
  LET key == KeyOf(a)
      got == LRUGet(cache, key, now, ttl)
      before == CachedKeys(cache)
      after == CachedKeys(got.cache)
  IN
  /\ cache' = got.cache
  /\ lastOp' = [NoOp EXCEPT
                  !.op = "get", !.args = a, !.ret = got.ret,
                  !.tracked = (a \in DOMAIN shadow),
                  !.written = IF a \in DOMAIN shadow THEN shadow[a] ELSE @,
                  !.entryThere = (key \in before),
                  !.entryAge = IF key \in before
                               THEN now - EntryOf(cache, key).timestamp
                               ELSE 0,
                  !.wasNewest = (recency # <<>> /\ recency[Len(recency)] = key),
                  !.sizeBefore = Len(cache),
                  !.removed = before \ after]
  /\ shadow' = [b \in {x \in DOMAIN shadow : KeyOf(x) \in after} |-> shadow[b]]
  /\ recency' = Present(IF got.ret.hit THEN Touch(recency, key) ELSE recency, after)
  /\ UNCHANGED <<client, io, now, rateLimitStore, maxSize, ttl, pc, call, obs, last,
                 rlParams, rlLog>>

\* responseCache.set(a.text, a.mode, a.intent, a.context, v)
CacheSetOp(a, v) ==
  LET key == KeyOf(a)
      c2 == LRUSet(cache, key, v, now, maxSize)
      before == CachedKeys(cache)
      after == CachedKeys(c2)
      intact == {b \in DOMAIN shadow \ {a} :
                   /\ KeyOf(b) \in after
                   /\ EntryOf(c2, KeyOf(b)) = EntryOf(cache, KeyOf(b))}
  IN
  /\ cache' = c2
  /\ lastOp' = [NoOp EXCEPT
                  !.op = "set", !.args = a,
                  !.newKey = (key \notin before),
                  !.sizeBefore = Len(cache),
                  !.removed = before \ after,
                  !.lru = IF recency # <<>> THEN Head(recency) ELSE <<>>]
  /\ shadow' = [b \in intact \cup {a} |->
                  IF b = a THEN [value |-> v, time |-> now] ELSE shadow[b]]
  /\ recency' = Present(Touch(recency, key), after)
  /\ UNCHANGED <<client, io, now, rateLimitStore, maxSize, ttl, pc, call, obs, last,
                 rlParams, rlLog>>

CacheTick ==
  /\ now < MaxTime
  /\ now' = now + 1
  /\ lastOp' = NoOp
  /\ UNCHANGED <<client, io, rateLimitStore, cache, maxSize, ttl, pc, call, obs, last,
                 shadow, recency, rlParams, rlLog>>

CacheNext ==
  \/ \E a \in CacheArgs : CacheGetOp(a)
  \/ \E a \in CacheArgs, v \in CacheValues : CacheSetOp(a, v)
  \/ CacheTick

CacheSpec == CacheInit /\ [][CacheNext]_vars

LruNext ==
  \/ \E a \in LruArgs : CacheGetOp(a)
  \/ \E a \in LruArgs : CacheSetOp(a, <<"w">>)

LruSpec == LruInit /\ [][LruNext]_vars

(***************************************************************************)
(* checkRateLimit on its own: any calls for two clients with any           *)
(* (maxRequests, windowMs), the sweep and the clock in between.            *)
(***************************************************************************)
RlClients == {<<"7">>, <<"8">>}

RlInit ==
  /\ now = 0
  /\ cache = <<>>
  /\ maxSize = CACHE_MAX_SIZE
  /\ ttl = CACHE_TTL
  /\ ServerIdle
  /\ NoCacheProbes
  /\ rlParams \in [maxRequests : 1..MaxReq, windowMs : 0..MaxWindow]
  /\ rlLog = <<>>

RlCall(ip) ==
  /\ Len(rlLog) < MaxCalls
  /\ LET rc == CheckRateLimit(rateLimitStore, ip, rlParams.maxRequests,
                              rlParams.windowMs, now)
     IN /\ rateLimitStore' = rc.store
        /\ rlLog' = Append(rlLog, [ip |-> ip, t |-> now, allowed |-> rc.allowed,
                                   remaining |-> rc.remaining])
  /\ io' = NoIo
  /\ UNCHANGED <<client, now, cache, maxSize, ttl, pc, call, obs, last, lastOp, shadow,
                 recency, rlParams>>

\* the sweep runs; io keeps the store it found and the store it left
RlSweep ==
  /\ rateLimitStore' = SweepStore(rateLimitStore, now)
  /\ io' = [fn |-> "sweep", arg |-> rateLimitStore,
            res |-> SweepStore(rateLimitStore, now), done |-> TRUE]
  /\ UNCHANGED <<client, now, cache, maxSize, ttl, pc, call, obs, last, lastOp, shadow,
                 recency, rlParams, rlLog>>

RlTick ==
  /\ now < MaxTime
  /\ now' = now + 1
  /\ io' = NoIo
  /\ UNCHANGED <<client, rateLimitStore, cache, maxSize, ttl, pc, call, obs, last, lastOp,
                 shadow, recency, rlParams, rlLog>>

RlNext ==
  \/ \E ip \in RlClients : RlCall(ip)
  \/ RlSweep
  \/ RlTick

RlSpec == RlInit /\ [][RlNext]_vars

(***************************************************************************)
(* Functions called on their own: Init draws the argument, the one action  *)
(* applies the function.                                                   *)
(***************************************************************************)
\* everything but io
rest == <<now, rateLimitStore, cache, maxSize, ttl, pc, call, obs, last, lastOp,
          shadow, recency, rlParams, rlLog, client>>

\* the server at rest and no history
Quiet ==
  /\ client = NoClient
  /\ now = 0
  /\ cache = <<>>
  /\ maxSize = CACHE_MAX_SIZE
  /\ ttl = CACHE_TTL
  /\ ServerIdle
  /\ lastOp = NoOp
  /\ shadow = <<>>
  /\ recency = <<>>
  /\ rlParams = [maxRequests |-> 0, windowMs |-> 0]
  /\ rlLog = <<>>

\* what translateToSarcasm's catch block can catch: thrown by the code after
\* the await, by withTimeout, or by the external call
ErrInputs ==
  [isError : BOOLEAN,
   message : {"TIMEOUT", "CONTENT_BLOCKED", "EMPTY_RESPONSE", "fetch failed",
              "constructor"},
   status : {0, 401, 403, 404, 429, 500, 503},
   code : {"", "ECONNREFUSED", "ENOTFOUND", "ECONNRESET"}]

ErrInit ==
  /\ Quiet
  /\ io \in {[fn |-> "catch", arg |-> e, res |-> "", done |-> FALSE] :
               e \in ErrInputs}

\* the catch block runs on the error
ErrCatch ==
  /\ io.fn = "catch"
  /\ ~io.done
  /\ io' = [io EXCEPT !.res = MapError(io.arg), !.done = TRUE]
  /\ UNCHANGED rest

ErrNext == ErrCatch

ErrSpec == ErrInit /\ [][ErrNext]_vars

\* the strings of at most n characters of the set chars
StringsUpTo(chars, n) == UNION {[1..k -> chars] : k \in 0..n}

\* the values a body gives for mode, intent and context
ModeValues ==
  {JsUndefined, JsNull, JsNumber, JsString(LIGHT),
   JsString(<<"S","a","v","a","g","e">>), JsString(<<"l","o","u","d">>),
   JsString(<<>>)}
IntentValues ==
  {JsUndefined, JsNull, JsNumber, JsString(REWRITE),
   JsString(<<"R","e","p","l","y">>), JsString(<<"r","o","a","s","t">>)}
ContextValues ==
  {JsUndefined, JsNumber, JsString(<<" ","c"," ">>),
   JsString([i \in 1..(MAX_CONTEXT_LENGTH + 1) |-> "c"])}

\* texts that break a rule: empty, blank, too short, too long (and one long
\* run), one long run within the length
BadTexts ==
  {<<>>, <<" ">>, <<"a">>, [k \in 1..(MAX_TEXT_LENGTH + 1) |-> "a"],
   [k \in 1..(REPEAT_LIMIT + 1) |-> "a"]}

\* texts with characters the sanitizer removes
ControlTexts == StringsUpTo({"a", "^A"}, MIN_TEXT_LENGTH + 1)

\* the bodies validateRequest is called with: every short text with a few
\* valid or absent fields, one good text with every field value, texts that
\* are not strings, bodies that are not objects, texts that break a
\* rule beside a mode, an intent and a context that break theirs, and
\* texts with control characters
ValInputs ==
  {ObjectBody(JsString(t), m, i, c) :
      t \in StringsUpTo({"a", " ", "\n"}, MAX_TEXT_LENGTH + 1),
      m \in {JsUndefined, JsString(<<"S","a","v","a","g","e">>)},
      i \in {JsUndefined, JsString(REPLY)},
      c \in {JsUndefined, JsString(<<" ","c"," ">>)}}
  \cup {ObjectBody(JsString(<<"h","i">>), m, i, c) :
          m \in ModeValues, i \in IntentValues, c \in ContextValues}
  \cup {ObjectBody(t, JsUndefined, JsUndefined, JsUndefined) :
          t \in {JsUndefined, JsNull, JsNumber}}
  \cup {[t |-> "null"], [t |-> "number"]}
  \cup {ObjectBody(JsString(t), JsString(<<"l","o","u","d">>), i, c) :
          t \in BadTexts,
          i \in {JsUndefined, JsString(<<"r","o","a","s","t">>)},
          c \in {JsUndefined,
                 JsString([k \in 1..(MAX_CONTEXT_LENGTH + 1) |-> "c"])}}
  \cup {ObjectBody(JsString(t), JsUndefined, JsUndefined, JsUndefined) :
          t \in ControlTexts}

ValInit ==
  /\ Quiet
  /\ io \in {[fn |-> "validate", arg |-> b, res |-> Invalid(""), done |-> FALSE] :
               b \in ValInputs}

\* validateRequest runs on the body
ValCall ==
  /\ io.fn = "validate"
  /\ ~io.done
  /\ io' = [io EXCEPT !.res = ValidateRequest(io.arg), !.done = TRUE]
  /\ UNCHANGED rest

ValNext == ValCall

ValSpec == ValInit /\ [][ValNext]_vars

\* the arguments buildSystemInstruction is called with: the four modes and
\* three names that are none of them
InstrModes ==
  VALID_MODES \cup {<<"l","o","u","d">>, <<>>, <<"L","I","G","H","T">>}
InstrIntents == VALID_INTENTS \cup {<<"r","o","a","s","t">>}
InstrContexts == StringsUpTo({"c", " "}, MAX_CONTEXT_LENGTH)

InstrInit ==
  /\ Quiet
  /\ io \in {[fn |-> "instruction",
               arg |-> [intent |-> i, mode |-> m, context |-> c],
               res |-> <<>>, done |-> FALSE] :
               i \in InstrIntents, m \in InstrModes, c \in InstrContexts}

\* buildSystemInstruction runs on the arguments
InstrBuild ==
  /\ io.fn = "instruction"
  /\ ~io.done
  /\ io' = [io EXCEPT
              !.res = BuildSystemInstruction(io.arg.intent, io.arg.mode,
                                             io.arg.context),
              !.done = TRUE]
  /\ UNCHANGED rest

InstrNext == InstrBuild

InstrSpec == InstrInit /\ [][InstrNext]_vars

\* the strings sanitizeInput is called with: a letter, two kinds of
\* whitespace, a control character and two punctuation marks
SanChars == {"a", " ", "\n", "^A", "!", "?"}

SanInit ==
  /\ Quiet
  /\ io \in {[fn |-> "sanitize", arg |-> t, res |-> <<>>, done |-> FALSE] :
               t \in StringsUpTo(SanChars, MaxSanLen)}

\* sanitizeInput runs on the string
SanCall ==
  /\ io.fn = "sanitize"
  /\ ~io.done
  /\ io' = [io EXCEPT !.res = SanitizeInput(io.arg), !.done = TRUE]
  /\ UNCHANGED rest

SanNext == SanCall

SanSpec == SanInit /\ [][SanNext]_vars

(***************************************************************************)
(* The client's history (storage.ts, store/index.ts).  An operation of the *)
(* store runs from one await to the next; AsyncStorage serves the calls in *)
(* the order they were made, and a call can fail.  Two operations can be   *)
(* in progress at once.                                                    *)
(***************************************************************************)
\* everything but client
others == <<now, rateLimitStore, cache, maxSize, ttl, pc, call, obs, last, lastOp,
            shadow, recency, rlParams, rlLog, io>>

\* Array.prototype.slice(0, n)
Slice(h, n) == SubSeq(h, 1, IF Len(h) < n THEN Len(h) ELSE n)

\* saveHistoryItem without the slice
TrimHistoryKeepsAll(h) == h

\* updatedHistory.slice(0, MAX_HISTORY_ITEMS)
TrimHistory(h) == Slice(h, MAX_HISTORY_ITEMS)

\* history.filter((item) => item.id !== id)
WithoutId(h, id) == SelectSeq(h, LAMBDA item : item.id # id)

HistInit ==
  /\ Quiet
  /\ io = NoIo

\* addItem, removeItem(id), clearAll or loadHistory is called and runs to its
\* first await; loadHistory returns at once when the store is loaded
HistBegin(k, op, id) ==
  /\ client.task[k].op = "none"
  /\ op = "add" => client.nextId <= MaxAdds
  /\ op = "load" => ~client.isLoaded
  /\ op = "remove" <=> id # 0
  /\ id < client.nextId
  /\ LET first == IF op = "clear" THEN "removeItem" ELSE "getItem"
     IN client' = [client EXCEPT
                     !.task[k] = [NoTask EXCEPT !.op = op, !.pc = first, !.id = id],
                     !.queue = Append(@, [task |-> k, call |-> first,
                                          value |-> <<>>]),
                     !.done = NoDone]

HistStart(k, op, id) ==
  /\ HistBegin(k, op, id)
  /\ UNCHANGED others

\* AsyncStorage completes the call at the head of its queue, with success
\* (ok) or failure, and the operation that awaited it runs to its next await
\* or to its end
HistServed(ok) ==
  /\ client.queue # <<>>
  /\ LET rq == Head(client.queue)
         k == rq.task
         t == client.task[k]
         \* getHistory: the parsed list, [] when nothing is stored or on failure
         history == IF ok THEN client.stored ELSE <<>>
         newItem == [id |-> client.nextId, timestamp |-> client.clock]
         ended == [NoDone EXCEPT !.op = t.op, !.ok = ok, !.item = t.item,
                                 !.id = t.id, !.itemsBefore = client.items,
                                 !.history = t.history]
     IN
     IF rq.call = "getItem"
     THEN IF t.op = "load"
          THEN client' = [client EXCEPT
                            !.queue = Tail(@), !.task[k] = NoTask,
                            !.items = history, !.isLoaded = TRUE,
                            !.done = [ended EXCEPT !.ok = TRUE]]
          ELSE IF t.op = "add"
          THEN client' = [client EXCEPT
                            !.queue = Append(Tail(@),
                                [task |-> k, call |-> "setItem",
                                 value |-> TrimHistory(<<newItem>> \o history)]),
                            !.task[k] = [t EXCEPT !.pc = "setItem", !.item = newItem,
                                                  !.history = history],
                            !.nextId = @ + 1,
                            !.done = NoDone]
          ELSE client' = [client EXCEPT
                            !.queue = Append(Tail(@),
                                [task |-> k, call |-> "setItem",
                                 value |-> WithoutId(history, t.id)]),
                            !.task[k] = [t EXCEPT !.pc = "setItem",
                                                  !.history = history],
                            !.done = NoDone]
     ELSE IF rq.call = "setItem"
     THEN client' = [client EXCEPT
                       !.queue = Tail(@), !.task[k] = NoTask,
                       !.stored = IF ok THEN rq.value ELSE @,
                       !.items = IF ~ok THEN @
                                 ELSE IF t.op = "add"
                                 THEN Slice(<<t.item>> \o @, STORE_LIMIT)
                                 ELSE WithoutId(@, t.id),
                       !.done = ended]
     ELSE client' = [client EXCEPT
                       !.queue = Tail(@), !.task[k] = NoTask,
                       !.stored = IF ok THEN <<>> ELSE @,
                       !.items = IF ok THEN <<>> ELSE @,
                       !.done = ended]

HistServe(ok) ==
  /\ HistServed(ok)
  /\ UNCHANGED others

\* Date.now() advances
HistTick ==
  /\ client.clock < MaxClock
  /\ client' = [client EXCEPT !.clock = @ + 1, !.done = NoDone]
  /\ UNCHANGED others

HistNext ==
  \/ \E k \in Tasks, op \in {"add", "clear", "load"} : HistStart(k, op, 0)
  \/ \E k \in Tasks, id \in 1..MaxAdds : HistStart(k, "remove", id)
  \/ \E ok \in BOOLEAN : HistServe(ok)
  \/ HistTick

HistSpec == HistInit /\ [][HistNext]_vars

(***************************************************************************)
(* Two operations of the history, each an addItem or a removeItem, called  *)
(* once each on a persisted list and free to overlap; every AsyncStorage   *)
(* call succeeds.  io holds the list they started from and, for each       *)
(* operation, what it is and the item it made.                             *)
(***************************************************************************)
NoHistOp == [op |-> "none", id |-> 0, item |-> NoItem, ended |-> FALSE]

\* the persisted lists the two operations start from, newest first
StartLists ==
  {<<>>,
   <<[id |-> 1, timestamp |-> 0]>>,
   <<[id |-> 2, timestamp |-> 0], [id |-> 1, timestamp |-> 0]>>}

SerInit ==
  /\ now = 0
  /\ cache = <<>>
  /\ maxSize = CACHE_MAX_SIZE
  /\ ttl = CACHE_TTL
  /\ ServerIdle
  /\ lastOp = NoOp
  /\ shadow = <<>>
  /\ recency = <<>>
  /\ rlParams = [maxRequests |-> 0, windowMs |-> 0]
  /\ rlLog = <<>>
  /\ \E h \in StartLists :
       /\ client = [NoClient EXCEPT !.stored = h, !.items = h,
                                    !.isLoaded = TRUE, !.nextId = Len(h) + 1]
       /\ io = [fn |-> "history", arg |-> h, ops |-> [k \in Tasks |-> NoHistOp]]

\* operation k is called: addItem (id = 0) or removeItem(id)
SerStart(k, op, id) ==
  /\ io.fn = "history"
  /\ io.ops[k].op = "none"
  /\ HistBegin(k, op, id)
  /\ io' = [io EXCEPT !.ops[k] = [NoHistOp EXCEPT !.op = op, !.id = id]]
  /\ UNCHANGED <<now, rateLimitStore, cache, maxSize, ttl, pc, call, obs, last,
                 lastOp, shadow, recency, rlParams, rlLog>>

\* AsyncStorage completes the call at the head of its queue
SerServe ==
  /\ io.fn = "history"
  /\ HistServed(TRUE)
  /\ LET k == Head(client.queue).task
     IN io' = [io EXCEPT
                 !.ops[k].item = IF client'.task[k].op = "none" THEN @
                                 ELSE client'.task[k].item,
                 !.ops[k].ended = (client'.task[k].op = "none")]
  /\ UNCHANGED <<now, rateLimitStore, cache, maxSize, ttl, pc, call, obs, last,
                 lastOp, shadow, recency, rlParams, rlLog>>

SerNext ==
  \/ \E k \in Tasks : SerStart(k, "add", 0)
  \/ \E k \in Tasks, id \in 1..MaxAdds : SerStart(k, "remove", id)
  \/ SerServe

SerSpec == SerInit /\ [][SerNext]_vars

(***************************************************************************)
(* The client's translation state (useTranslationStore in store/index.ts,  *)
(* HomeScreen.handleTranslate).  The user edits the fields and asks for a  *)
(* translation; handleTranslate runs from one await to the next, and the   *)
(* user can act while it waits.                                            *)
(***************************************************************************)
\* entries the client's translationCache keeps (50 in the program)
TRANSLATION_CACHE_LIMIT == 1

\* what the user types and chooses
UserTexts == {<<>>, <<"a">>}
UserContexts == {<<>>, <<"c">>}
UserModes == {LIGHT, SAVAGE}
UserIntents == {REWRITE, REPLY}
\* what translateText resolves with (result.translated) and throws
Translations == {<<"T">>}
TranslateErrors == {"Network error. Please check your connection."}

\* `${mode}:${intent}:${context.trim().toLowerCase()}:${text.trim().toLowerCase()}`
GetCacheKey(text, mode, intent, context) ==
  mode \o <<":">> \o intent \o <<":">> \o ToLowerCase(Trim(context)) \o <<":">>
       \o ToLowerCase(Trim(text))

\* getCachedTranslation: the Map's value, undefined (here <<>>) when absent
GetCachedTranslation(c, text, mode, intent, context) ==
  LET key == GetCacheKey(text, mode, intent, context)
  IN IF MapHas(c, key) THEN c[MapIndex(c, key)].value ELSE <<>>

\* setCachedTranslation: the new Map
SetCachedTranslation(c, text, mode, intent, context, result) ==
  LET key == GetCacheKey(text, mode, intent, context)
      newCache == MapSet(c, key, [key |-> key, value |-> result])
  IN IF Len(newCache) > TRANSLATION_CACHE_LIMIT /\ newCache[1].key # <<>>
     THEN MapDelete(newCache, newCache[1].key)
     ELSE newCache

TransInit ==
  /\ Quiet
  /\ io = NoIo

\* the client with the translation store tr
WithTranslation(tr) == [client EXCEPT !.translation = tr]

SetInputText(text) ==
  /\ client' = WithTranslation([client.translation EXCEPT
                                  !.inputText = text, !.error = JsNull])
  /\ UNCHANGED others

ClearInput ==
  /\ client' = WithTranslation([client.translation EXCEPT
                                  !.inputText = <<>>, !.contextText = <<>>,
                                  !.translatedText = <<>>, !.error = JsNull])
  /\ UNCHANGED others

SetContextText(text) ==
  /\ client' = WithTranslation([client.translation EXCEPT !.contextText = text])
  /\ UNCHANGED others

SetIntent(intent) ==
  /\ client' = WithTranslation([client.translation EXCEPT !.intent = intent])
  /\ UNCHANGED others

SetSelectedMode(mode) ==
  /\ client' = WithTranslation([client.translation EXCEPT !.selectedMode = mode])
  /\ UNCHANGED others

\* handleTranslate up to its return on a cache hit or to `await translateText`
HandleTranslate ==
  LET tr == client.translation
      trimmedText == Trim(tr.inputText)
      trimmedContext == Trim(tr.contextText)
      cached == GetCachedTranslation(tr.translationCache, trimmedText,
                                     tr.selectedMode, tr.intent, trimmedContext)
  IN /\ tr.pc = "idle"
     /\ trimmedText # <<>>
     /\ ~tr.isLoading
     /\ client' = WithTranslation(
          IF cached # <<>>
          THEN [tr EXCEPT !.translatedText = cached]
          ELSE [tr EXCEPT
                  !.error = JsNull, !.isLoading = TRUE, !.pc = "translateText",
                  !.req = [text |-> trimmedText, mode |-> tr.selectedMode,
                           intent |-> tr.intent, context |-> trimmedContext]])
     /\ UNCHANGED others

\* translateText resolves: the result is shown and cached, and addItem is
\* awaited
TranslateResolves(translated) ==
  LET tr == client.translation
  IN /\ tr.pc = "translateText"
     /\ client' = WithTranslation(
          [tr EXCEPT
             !.translatedText = translated,
             !.translationCache =
                SetCachedTranslation(@, tr.req.text, tr.req.mode, tr.req.intent,
                                     tr.req.context, translated),
             !.pc = "addItem"])
     /\ UNCHANGED others

\* translateText throws: the catch block and the finally block
TranslateRejects(msg) ==
  LET tr == client.translation
  IN /\ tr.pc = "translateText"
     /\ client' = WithTranslation(
          [tr EXCEPT
             !.error = JsString(msg), !.translatedText = <<>>,
             !.isLoading = FALSE, !.pc = "idle", !.req = NoTranslation.req])
     /\ UNCHANGED others

\* addItem settles (it swallows its errors): the finally block
AddItemSettles ==
  LET tr == client.translation
  IN /\ tr.pc = "addItem"
     /\ client' = WithTranslation(
          [tr EXCEPT !.isLoading = FALSE, !.pc = "idle",
                     !.req = NoTranslation.req])
     /\ UNCHANGED others

TransNext ==
  \/ \E text \in UserTexts : SetInputText(text)
  \/ ClearInput
  \/ \E text \in UserContexts : SetContextText(text)
  \/ \E intent \in UserIntents : SetIntent(intent)
  \/ \E mode \in UserModes : SetSelectedMode(mode)
  \/ HandleTranslate
  \/ \E translated \in Translations : TranslateResolves(translated)
  \/ \E msg \in TranslateErrors : TranslateRejects(msg)
  \/ AddItemSettles

TransSpec == TransInit /\ [][TransNext]_vars

(***************************************************************************)
(* handleTranslate from validateRequest to translateToSarcasm's cache key  *)
(* and prompt, on its own: what the handler passes on and what the         *)
(* orchestrator makes of it.                                               *)
(***************************************************************************)
NoPrepared ==
  [validation |-> Invalid(""), called |-> FALSE,
   args |-> [text |-> <<>>, mode |-> <<>>, intent |-> <<>>, context |-> <<>>],
   key |-> <<>>, instruction |-> <<>>, prompt |-> <<>>]

\* what reaches the cache key and the prompt when translateToSarcasm is
\* called with (text, mode, intent, context)
Prepared(v, text, mode, intent, context) ==
  LET sanitizedText == SanitizeInput(text)
      sanitizedContext == SanitizeContext(context)
  IN [validation |-> v, called |-> TRUE,
      args |-> [text |-> text, mode |-> mode, intent |-> intent,
                context |-> context],
      key |-> GenerateKey(sanitizedText, mode, intent, sanitizedContext),
      instruction |-> BuildSystemInstruction(intent, mode, sanitizedContext),
      prompt |-> sanitizedText]

\* a handler that passes on the fields of the body as they came
PrepareFromBody(body) ==
  LET v == ValidateRequest(body)
  IN IF ~v.valid THEN [NoPrepared EXCEPT !.validation = v]
     ELSE Prepared(v, body.text.s,
                   IF body.mode.t = "string" THEN body.mode.s ELSE LIGHT,
                   IF body.intent.t = "string" THEN body.intent.s ELSE REWRITE,
                   IF body.context.t = "string" THEN body.context.s ELSE <<>>)

\* const validation = validateRequest(body); ...
\* translateToSarcasm(text, mode, intent, context) with validation's fields
Prepare(body) ==
  LET v == ValidateRequest(body)
  IN IF ~v.valid THEN [NoPrepared EXCEPT !.validation = v]
     ELSE Prepared(v, v.text, v.mode, v.intent, v.context)

PrepInit ==
  /\ Quiet
  /\ io \in {[fn |-> "prepare", arg |-> b, res |-> NoPrepared, done |-> FALSE] :
               b \in ValInputs}

\* the handler runs on the body as far as the cache key and the prompt
PrepCall ==
  /\ io.fn = "prepare"
  /\ ~io.done
  /\ io' = [io EXCEPT !.res = Prepare(io.arg), !.done = TRUE]
  /\ UNCHANGED rest

PrepNext == PrepCall

PrepSpec == PrepInit /\ [][PrepNext]_vars

(***************************************************************************)
(* Two translate requests one after the other on an empty cache: the first *)
(* misses, its external call fulfils and its translation is stored; the    *)
(* second looks its own key up.  io.res holds what reached the key of      *)
(* each, io.ret what the second request's get returned.                    *)
(***************************************************************************)
\* longest text of the pairs
MaxKeyText == 3

KeyTexts == StringsUpTo({"a", "A", ":"}, MaxKeyText)

KeyInputs ==
  {ObjectBody(JsString(t), m, JsUndefined, c) :
      t \in KeyTexts,
      m \in {JsUndefined, JsString(SAVAGE)},
      c \in {JsUndefined, JsString(<<":">>), JsString(<<"a">>)}}

\* the translation the external service gives the first request
FirstTranslation == <<"o","n","e">>

KeyInit ==
  /\ Quiet
  /\ io \in {[fn |-> "keys", arg |-> <<a, b>>, res |-> <<NoPrepared, NoPrepared>>,
              step |-> 0, ret |-> NoValue] : a \in KeyInputs, b \in KeyInputs}

\* the first request: validateRequest, responseCache.get (a miss), the
\* external call's translation, responseCache.set
KeyFirst ==
  /\ io.fn = "keys"
  /\ io.step = 0
  /\ LET p == Prepare(io.arg[1])
         got == LRUGet(cache, p.key, now, ttl)
     IN /\ io' = [io EXCEPT !.res[1] = p, !.step = 1]
        /\ cache' = IF p.called /\ ~Truthy(got.ret)
                    THEN LRUSet(got.cache, p.key, FirstTranslation, now, maxSize)
                    ELSE got.cache
  /\ UNCHANGED <<client, now, rateLimitStore, maxSize, ttl, pc, call, obs, last,
                 lastOp, shadow, recency, rlParams, rlLog>>

\* the second request: validateRequest, responseCache.get
KeySecond ==
  /\ io.fn = "keys"
  /\ io.step = 1
  /\ LET p == Prepare(io.arg[2])
         got == IF p.called THEN LRUGet(cache, p.key, now, ttl)
                ELSE [cache |-> cache, ret |-> NoValue]
     IN /\ io' = [io EXCEPT !.res[2] = p, !.step = 2, !.ret = got.ret]
        /\ cache' = got.cache
  /\ UNCHANGED <<client, now, rateLimitStore, maxSize, ttl, pc, call, obs, last,
                 lastOp, shadow, recency, rlParams, rlLog>>

KeyNext ==
  \/ KeyFirst
  \/ KeySecond

KeySpec == KeyInit /\ [][KeyNext]_vars

(***************************************************************************)
(* The two rate-limit gates on their own: requests of two clients, one of  *)
(* which sends the other's coarse key as its address, with the sweep and   *)
(* the clock in between.  rlLog holds one record per request.              *)
(***************************************************************************)
GateClients == {<<"7">>, <<"a","p","i",":","7">>}

GateRequests ==
  {[method |-> m.method, path |-> m.path, xff |-> JsString(ip), xri |-> NoHeader] :
      m \in {[method |-> "POST", path |-> "/api/translate"],
             [method |-> "GET", path |-> "/api/health"],
             [method |-> "GET", path |-> "/"],
             [method |-> "OPTIONS", path |-> "/api/translate"]},
      ip \in GateClients}

\* the two limiters with the strict one asked first and the coarse one only
\* when the strict one let the request through
GatesStrictFirst(store, rq, t) ==
  IF rq.method = "OPTIONS"
  THEN [store |-> store, api |-> [asked |-> FALSE, allowed |-> FALSE],
        tr |-> [asked |-> FALSE, allowed |-> FALSE]]
  ELSE LET ip == GetClientIP(rq)
           trAsked == rq.path = "/api/translate" /\ rq.method = "POST"
           tr == TranslateGate(store, ip, t)
           apiAsked == StartsWithApi(rq.path) /\ ~(trAsked /\ tr.reject)
           api == ApiGate(IF trAsked THEN tr.store ELSE store, ip, rq.path, t)
       IN [store |-> IF apiAsked THEN api.store
                     ELSE IF trAsked THEN tr.store ELSE store,
           api |-> [asked |-> apiAsked, allowed |-> apiAsked /\ ~api.reject],
           tr |-> [asked |-> trAsked, allowed |-> trAsked /\ ~tr.reject]]

\* handleRequest and handleTranslate as far as the limiters: the store
\* afterwards and, for each limiter, whether it was asked and what it said
Gates(store, rq, t) ==
  IF rq.method = "OPTIONS"
  THEN [store |-> store, api |-> [asked |-> FALSE, allowed |-> FALSE],
        tr |-> [asked |-> FALSE, allowed |-> FALSE]]
  ELSE LET ip == GetClientIP(rq)
           api == ApiGate(store, ip, rq.path, t)
           trAsked == ~api.reject /\ rq.path = "/api/translate" /\ rq.method = "POST"
           tr == TranslateGate(api.store, ip, t)
       IN [store |-> IF trAsked THEN tr.store ELSE api.store,
           api |-> [asked |-> StartsWithApi(rq.path),
                    allowed |-> StartsWithApi(rq.path) /\ ~api.reject],
           tr |-> [asked |-> trAsked, allowed |-> trAsked /\ ~tr.reject]]

GateInit ==
  /\ Quiet
  /\ io = NoIo

GateRequest(rq) ==
  /\ Len(rlLog) < MaxGateLog
  /\ LET g == Gates(rateLimitStore, rq, now)
     IN /\ rateLimitStore' = g.store
        /\ rlLog' = Append(rlLog, [ip |-> GetClientIP(rq), method |-> rq.method,
                                   path |-> rq.path, t |-> now, api |-> g.api,
                                   tr |-> g.tr])
  /\ io' = NoIo
  /\ UNCHANGED <<client, now, cache, maxSize, ttl, pc, call, obs, last, lastOp, shadow,
                 recency, rlParams>>

GateNext ==
  \/ \E rq \in GateRequests : GateRequest(rq)
  \/ RlSweep
  \/ RlTick

GateSpec == GateInit /\ [][GateNext]_vars

(***************************************************************************)
(* Properties of the cache key, checked under KeySpec                      *)
(***************************************************************************)
\* the normalized inputs of a request that reached the cache: mode, intent,
\* sanitized context, lower-cased trimmed sanitized text
KeyTuple(p) ==
  <<p.args.mode, p.args.intent, SanitizeContext(p.args.context),
    Trim(ToLowerCase(p.prompt))>>

\* C31: cache keys are injective on normalized inputs: two requests whose
\* (mode, intent, sanitized context, lower-cased trimmed sanitized text)
\* tuples differ never have the same cache key, so the second request's
\* cache hit never returns the translation generated for a first request
\* with a different tuple.
C31_KeysInjective ==
  (io.fn = "keys" /\ io.step = 2 /\ io.res[1].called /\ io.res[2].called)
    => /\ (KeyTuple(io.res[1]) # KeyTuple(io.res[2])
             => io.res[1].key # io.res[2].key)
       /\ (Truthy(io.ret) => KeyTuple(io.res[1]) = KeyTuple(io.res[2]))

(***************************************************************************)
(* Properties of the error mapping, checked under ErrSpec                  *)
(***************************************************************************)
\* the failure mode of an error, by the first of its marks in the order
\* message, status, code; "unknown" when it carries none
FailureMode(e) ==
  IF e.isError /\ e.message \in {"TIMEOUT", "CONTENT_BLOCKED", "EMPTY_RESPONSE"}
  THEN e.message
  ELSE IF e.isError /\ e.message = "constructor" THEN "other"
  ELSE IF e.status \in {401, 403, 429, 500, 503} THEN "status"
  ELSE IF e.code \in {"ECONNREFUSED", "ENOTFOUND"} THEN "connection"
  ELSE "unknown"

C23_UnknownModeIsLight ==
  io.fn = "instruction" /\ io.done /\ io.arg.mode \notin VALID_MODES =>
    io.res = BuildSystemInstruction(io.arg.intent, LIGHT, io.arg.context)

(***************************************************************************)
(* Properties of sanitizeInput, checked under SanSpec                      *)
(***************************************************************************)
\* the punctuation characters of s, in their order
PunctOf(s) == SelectSeq(s, LAMBDA ch : ch \in PunctChars)

\* s has n consecutive characters of the set chars
HasRunOf(s, chars, n) ==
  \E i \in 1..Len(s) :
     /\ i + n - 1 <= Len(s)
     /\ \A j \in i..(i + n - 1) : s[j] \in chars

\* C24: for every input the output of sanitizeInput has no two consecutive
\* whitespace characters and no leading or trailing whitespace.
C24_WhitespaceCollapsed ==
  io.fn = "sanitize" /\ io.done =>
    /\ ~HasRunOf(io.res, WhitespaceChars, 2)
    /\ Trim(io.res) = io.res

\* C25: for every input the output of sanitizeInput has no control
\* character and no run of more than 3 punctuation characters, and when the
\* input has no run of more than 3 punctuation characters its punctuation
\* is in the output unchanged.
C25_PunctuationCapped ==
  io.fn = "sanitize" /\ io.done =>
    /\ \A i \in 1..Len(io.res) : io.res[i] \notin ControlChars
    /\ ~HasRunOf(io.res, PunctChars, 4)
    /\ ~HasRunOf(io.arg, PunctChars, 4) => PunctOf(io.res) = PunctOf(io.arg)

(***************************************************************************)
(* Properties of the client's history, checked under HistSpec              *)
(***************************************************************************)
\* no item of h is newer than an item before it
NewestFirst(h) ==
  \A i, j \in 1..Len(h) : i < j => h[i].timestamp >= h[j].timestamp

\* C26: whatever add, delete and clear operations have run, the persisted
\* history and the in-memory list each hold at most the maximum number of
\* items, newest first, and an add to a full list puts the new item first
\* and drops the last, oldest, item.
C26_HistoryCapped ==
  /\ Len(client.stored) <= MAX_HISTORY_ITEMS
  /\ Len(client.items) <= STORE_LIMIT
  /\ NewestFirst(client.stored)
  /\ NewestFirst(client.items)
  /\ client.done.op = "add" /\ client.done.ok =>
       /\ Head(client.stored) = client.done.item
       /\ Head(client.items) = client.done.item
       /\ Len(client.done.history) = MAX_HISTORY_ITEMS =>
            /\ Len(client.stored) = MAX_HISTORY_ITEMS
            /\ Tail(client.stored) =
                 SubSeq(client.done.history, 1, MAX_HISTORY_ITEMS - 1)
            /\ \A i \in 1..MAX_HISTORY_ITEMS :
                  client.done.history[MAX_HISTORY_ITEMS].timestamp
                    <= client.done.history[i].timestamp
       /\ Len(client.done.itemsBefore) = STORE_LIMIT =>
            /\ Len(client.items) = STORE_LIMIT
            /\ Tail(client.items) =
                 SubSeq(client.done.itemsBefore, 1, STORE_LIMIT - 1)
            /\ \A i \in 1..STORE_LIMIT :
                  client.done.itemsBefore[STORE_LIMIT].timestamp
                    <= client.done.itemsBefore[i].timestamp

\* an add to a full list completed while another operation was in progress
C26_Witness ==
  /\ client.done.op = "add"
  /\ client.done.ok
  /\ Len(client.done.itemsBefore) = STORE_LIMIT
  /\ Len(client.done.history) = MAX_HISTORY_ITEMS
  /\ client.items = client.stored
  /\ client.queue # <<>>

\* what operation o makes of the persisted list h when nothing else runs
ApplyOp(o, h) ==
  IF o.op = "add" THEN TrimHistory(<<o.item>> \o h) ELSE WithoutId(h, o.id)

\* C36: history storage operations are serializable: when a saveHistoryItem
\* or deleteHistoryItem call overlaps another, the persisted list after both
\* have completed is the list that results from applying the two, one
\* after the other, in one of the two orders.
C36_Serializable ==
  (io.fn = "history" /\ io.ops[1].ended /\ io.ops[2].ended) =>
    client.stored \in {ApplyOp(io.ops[2], ApplyOp(io.ops[1], io.arg)),
                       ApplyOp(io.ops[1], ApplyOp(io.ops[2], io.arg))}

\* C37: in the client's translation state, after any sequence of user
\* actions and translate outcomes, a non-null error and a non-empty
\* translatedText never hold together, isLoading is true only while a
\* translate request is in flight, and it is false once the request has
\* completed.
C37_ErrorXorTranslation ==
  LET tr == client.translation
  IN /\ ~(tr.error.t # "null" /\ tr.translatedText # <<>>)
     /\ tr.isLoading => tr.pc \in {"translateText", "addItem"}
     /\ tr.pc = "idle" => ~tr.isLoading

(***************************************************************************)
(* Properties of the validated fields and their use, checked under         *)
(* PrepSpec                                                                *)
(***************************************************************************)
\* C27: whenever validation succeeds the returned text is the trimmed text
\* with a length in [MIN_TEXT_LENGTH, MAX_TEXT_LENGTH], the mode and the
\* intent are lower-case members of their enums, and the context is trimmed
\* and no longer than MAX_CONTEXT_LENGTH; translateToSarcasm is called with
\* these values and no others, so that the cache key, the instruction and
\* the prompt are made of them; when validation fails it is not called.
C27_ValidatedFieldsNormalized ==
  io.fn = "prepare" /\ io.done =>
    LET v == io.res.validation
    IN /\ ~v.valid => ~io.res.called
       /\ v.valid =>
            /\ v.text = Trim(io.arg.text.s)
            /\ Trim(v.text) = v.text
            /\ Len(v.text) >= MIN_TEXT_LENGTH
            /\ Len(v.text) <= MAX_TEXT_LENGTH
            /\ v.mode \in VALID_MODES
            /\ ToLowerCase(v.mode) = v.mode
            /\ v.intent \in VALID_INTENTS
            /\ ToLowerCase(v.intent) = v.intent
            /\ Trim(v.context) = v.context
            /\ Len(v.context) <= MAX_CONTEXT_LENGTH
            /\ io.res.called
            /\ io.res.args = [text |-> v.text, mode |-> v.mode,
                              intent |-> v.intent, context |-> v.context]
            /\ io.res.key = GenerateKey(SanitizeInput(v.text), v.mode, v.intent,
                                        SanitizeContext(v.context))
            /\ io.res.prompt = SanitizeInput(v.text)
            /\ io.res.instruction =
                 BuildSystemInstruction(v.intent, v.mode,
                                        SanitizeContext(v.context))

\* a body with an untrimmed text, a capitalized mode and an untrimmed
\* context was validated and passed on
C27_Witness ==
  /\ io.fn = "prepare"
  /\ io.done
  /\ io.res.validation.valid
  /\ io.res.called
  /\ io.arg.text.s # io.res.args.text
  /\ Len(io.arg.text.s) = MAX_TEXT_LENGTH + 1
  /\ io.arg.mode = JsString(<<"S","a","v","a","g","e">>)
  /\ io.res.args.mode = SAVAGE
  /\ io.arg.context = JsString(<<" ","c"," ">>)
  /\ io.res.args.context = <<"c">>

\* C32: for every request that passed validation, the sanitized text that
\* is sent to the external service (the prompt) and used in the cache key is
\* not the empty string.
C32_SanitizedTextNonEmpty ==
  (io.fn = "prepare" /\ io.done /\ io.res.validation.valid) =>
    /\ io.res.called
    /\ io.res.prompt # <<>>
    /\ io.res.key # GenerateKey(<<>>, io.res.args.mode, io.res.args.intent,
                                SanitizeContext(io.res.args.context))

(***************************************************************************)
(* Properties of validateRequest, checked under ValSpec                    *)
(***************************************************************************)
ErrTextRequired == "Text is required and must be a string."
ErrTextEmpty == "Text cannot be empty."
ErrTooShort == "Text must be at least 2 characters."
ErrTooLong == "Text must be 500 characters or less."
ErrSpam == "Text appears to be spam. Please enter valid text."
ErrMode == "Invalid mode. Must be one of: corporate, light, savage, toxic."
ErrIntent == "Invalid intent. Must be one of: rewrite, reply."

\* s has a run of more than REPEAT_LIMIT copies of one character
HasLongRun(s) ==
  \E i \in 1..Len(s) :
     /\ i + REPEAT_LIMIT <= Len(s)
     /\ \A j \in i..(i + REPEAT_LIMIT) : s[j] = s[i]

\* a field is absent, or a string that names a member of the enum in any case
AbsentOrIn(v, enum) ==
  v.t = "undefined" \/ (v.t = "string" /\ ToLowerCase(v.s) \in enum)

\* the text of the body is a string that passes every test of the text
GoodText(b) ==
  /\ b.text.t = "string"
  /\ Len(Trim(b.text.s)) \in MIN_TEXT_LENGTH..MAX_TEXT_LENGTH
  /\ ~ExcessiveRepeats(Trim(b.text.s))

\* C13: for a body whose text is a string and whose other fields are valid or
\* absent, validation succeeds exactly when the trimmed text has a length in
\* [MIN_TEXT_LENGTH, MAX_TEXT_LENGTH] and no run of more than REPEAT_LIMIT
\* identical characters; length 0 fails as missing or empty, length 1 as too
\* short, a length above the maximum as too long, and a long run as spam.
C13_TextRules ==
  /\ io.fn = "validate"
  /\ io.done
  /\ io.arg.t = "object"
  /\ io.arg.text.t = "string"
  /\ AbsentOrIn(io.arg.mode, VALID_MODES)
  /\ AbsentOrIn(io.arg.intent, VALID_INTENTS)
  /\ io.arg.context.t \in {"undefined", "string"}
  /\ io.arg.context.t = "string" => Len(Trim(io.arg.context.s)) <= MAX_CONTEXT_LENGTH
  =>
  LET t == Trim(io.arg.text.s)
      inRange == Len(t) >= MIN_TEXT_LENGTH /\ Len(t) <= MAX_TEXT_LENGTH
  IN /\ io.res.valid <=> inRange /\ ~HasLongRun(t)
     /\ Len(t) = 0 => io.res.error \in {ErrTextRequired, ErrTextEmpty}
     /\ Len(t) > 0 /\ Len(t) < MIN_TEXT_LENGTH => io.res.error = ErrTooShort
     /\ Len(t) > MAX_TEXT_LENGTH => io.res.error = ErrTooLong
     /\ inRange /\ HasLongRun(t) => io.res.error = ErrSpam

\* C14: with a good text, a mode that is provided and is not a string naming
\* a member of the enum in any case fails as an invalid mode, likewise the
\* intent once the mode is valid or absent; only an absent field takes the
\* default light or rewrite.
C14_EnumRules ==
  io.fn = "validate" /\ io.done /\ io.arg.t = "object" /\ GoodText(io.arg) =>
    /\ ~AbsentOrIn(io.arg.mode, VALID_MODES) =>
         ~io.res.valid /\ io.res.error = ErrMode
    /\ AbsentOrIn(io.arg.mode, VALID_MODES)
         /\ ~AbsentOrIn(io.arg.intent, VALID_INTENTS) =>
         ~io.res.valid /\ io.res.error = ErrIntent
    /\ io.res.valid /\ io.arg.mode.t = "undefined" => io.res.mode = LIGHT
    /\ io.res.valid /\ io.arg.intent.t = "undefined" => io.res.intent = REWRITE
    /\ io.res.valid /\ io.res.mode = LIGHT /\ io.arg.mode.t # "undefined" =>
         io.arg.mode.t = "string"

ErrContext == "Context must be 200 characters or less."

\* the rules of the validator in the order the contract gives them
RuleOrder ==
  <<"MissingText", "EmptyText", "TooShort", "TooLong", "SpamPattern",
    "InvalidMode", "InvalidIntent", "ContextTooLong">>

\* body b breaks the rule, taken by itself
Breaks(b, rule) ==
  LET isText == b.text.t = "string"
      t == IF isText THEN Trim(b.text.s) ELSE <<>>
  IN CASE rule = "MissingText" -> ~isText \/ b.text.s = <<>>
       [] rule = "EmptyText" -> isText /\ t = <<>>
       [] rule = "TooShort" -> isText /\ Len(t) < MIN_TEXT_LENGTH
       [] rule = "TooLong" -> isText /\ Len(t) > MAX_TEXT_LENGTH
       [] rule = "SpamPattern" -> isText /\ ExcessiveRepeats(t)
       [] rule = "InvalidMode" ->
            b.mode.t = "string" /\ ToLowerCase(b.mode.s) \notin VALID_MODES
       [] rule = "InvalidIntent" ->
            b.intent.t = "string" /\ ToLowerCase(b.intent.s) \notin VALID_INTENTS
       [] OTHER ->
            b.context.t = "string" /\ Len(Trim(b.context.s)) > MAX_CONTEXT_LENGTH

ReasonOf(rule) ==
  CASE rule = "MissingText" -> ErrTextRequired
    [] rule = "EmptyText" -> ErrTextEmpty
    [] rule = "TooShort" -> ErrTooShort
    [] rule = "TooLong" -> ErrTooLong
    [] rule = "SpamPattern" -> ErrSpam
    [] rule = "InvalidMode" -> ErrMode
    [] rule = "InvalidIntent" -> ErrIntent
    [] OTHER -> ErrContext

\* the rules b breaks, by their places in RuleOrder
Broken(b) == {i \in 1..Len(RuleOrder) : Breaks(b, RuleOrder[i])}

RECURSIVE WindowRule(_, _, _, _, _, _)
WindowRule(log, ip, i, winEnd, n, p) ==
  IF i > Len(log) THEN TRUE
  ELSE IF log[i].ip # ip THEN WindowRule(log, ip, i + 1, winEnd, n, p)
  ELSE LET e == log[i]
           opens == winEnd < 0 \/ e.t > winEnd
           nth == IF opens THEN 1 ELSE n + 1
       IN /\ e.allowed <=> nth <= p.maxRequests
          /\ opens => e.allowed /\ e.remaining = p.maxRequests - 1
          /\ WindowRule(log, ip, i + 1,
                        IF opens THEN e.t + p.windowMs ELSE winEnd, nth, p)

\* C1: for every client and every (maxRequests, windowMs), of the calls made
\* within one window exactly the first maxRequests are allowed and the later
\* ones denied, and the first call after the window has elapsed is allowed
\* again with remaining = maxRequests - 1.
C1_WindowAdmitsExactlyMax ==
  \A ip \in RlClients : WindowRule(rlLog, ip, 1, -1, 0, rlParams)

\* one client used up a window of at least two requests, was denied in it, and
\* was admitted again with a full allowance once the window had elapsed
C1_Witness ==
  /\ rlParams.maxRequests >= 2
  /\ Len(rlLog) = rlParams.maxRequests + 2
  /\ \A i \in 1..Len(rlLog) : rlLog[i].ip = <<"7">>
  /\ \A i \in 1..rlParams.maxRequests : rlLog[i].allowed /\ rlLog[i].t = rlLog[1].t
  /\ ~rlLog[rlParams.maxRequests + 1].allowed
  /\ rlLog[Len(rlLog)].allowed
  /\ rlLog[Len(rlLog)].remaining = rlParams.maxRequests - 1
  /\ rlLog[Len(rlLog)].t > rlLog[1].t + rlParams.windowMs

RECURSIVE SameWithoutSweep(_, _, _, _)
SameWithoutSweep(log, i, store, p) ==
  IF i > Len(log) THEN TRUE
  ELSE LET rc == CheckRateLimit(store, log[i].ip, p.maxRequests, p.windowMs,
                                log[i].t)
       IN /\ log[i].allowed = rc.allowed
          /\ log[i].remaining = rc.remaining
          /\ SameWithoutSweep(log, i + 1, rc.store, p)

\* C18: a sweep removes exactly the entries whose window has elapsed and
\* changes no other, and whatever sweeps ran in between, the calls of
\* checkRateLimit returned what the same calls at the same instants return
\* with no sweep at all.
C18_SweepIsCleanupOnly ==
  /\ SameWithoutSweep(rlLog, 1, <<>>, rlParams)
  /\ io.fn = "sweep" =>
       /\ DOMAIN rateLimitStore =
            {k \in DOMAIN io.arg : now <= io.arg[k].resetTime}
       /\ \A k \in DOMAIN rateLimitStore : rateLimitStore[k] = io.arg[k]

\* between calls a sweep removed the elapsed entry of one client and kept the
\* running one of the other
C18_Witness ==
  /\ io.fn = "sweep"
  /\ Len(rlLog) >= 2
  /\ DOMAIN rateLimitStore # {}
  /\ DOMAIN rateLimitStore # DOMAIN io.arg

(***************************************************************************)
(* Properties of the two gates, checked under GateSpec                     *)
(***************************************************************************)
\* Replays the requests log[i..] of client ip against one limiter of its own
\* (lim is "api" or "tr"): the limiter is asked exactly for the requests due
\* to it, and of those in one window exactly the first max are allowed.  Due
\* to the coarse limiter is every request under /api but a preflight, due to
\* the strict one every POST /api/translate the coarse one let through.
RECURSIVE GateRule(_, _, _, _, _, _)
GateRule(log, ip, lim, i, winEnd, n) ==
  IF i > Len(log) THEN TRUE
  ELSE IF log[i].ip # ip THEN GateRule(log, ip, lim, i + 1, winEnd, n)
  ELSE LET e == log[i]
           due == IF lim = "api"
                  THEN StartsWithApi(e.path) /\ e.method # "OPTIONS"
                  ELSE e.method = "POST" /\ e.path = "/api/translate"
                       /\ e.api.allowed
           said == IF lim = "api" THEN e.api ELSE e.tr
           max == IF lim = "api" THEN API_MAX ELSE TRANSLATE_MAX
           opens == winEnd < 0 \/ e.t > winEnd
           nth == IF opens THEN 1 ELSE n + 1
       IN IF ~due
          THEN ~said.asked /\ GateRule(log, ip, lim, i + 1, winEnd, n)
          ELSE /\ said.asked
               /\ said.allowed <=> nth <= max
               /\ GateRule(log, ip, lim, i + 1,
                           IF opens THEN e.t + WINDOW_MS ELSE winEnd, nth)

\* C17: every request under /api takes a slot of the coarse limiter, only
\* POST /api/translate also takes one of the strict limiter, and for every
\* client each limiter decides as if it alone kept that client's count.
C17_IndependentLimiters ==
  \A ip \in GateClients :
     /\ GateRule(rlLog, ip, "api", 1, -1, 0)
     /\ GateRule(rlLog, ip, "tr", 1, -1, 0)

\* C35: rate limiting is per client: a request of one client changes neither
\* of the two counts held for another client (the strict one under the
\* client's identifier, the coarse one under `api:` and that identifier),
\* so it cannot change the outcome of the other's requests, whatever
\* forwarded-for header the request carries.
C35_ClientsIndependent ==
  [][Len(rlLog') = Len(rlLog) + 1 =>
       LET e == rlLog'[Len(rlLog')]
       IN \A other \in GateClients \ {e.ip} :
            \A k \in {other, ApiKey(other)} :
               /\ (k \in DOMAIN rateLimitStore') = (k \in DOMAIN rateLimitStore)
               /\ k \in DOMAIN rateLimitStore =>
                    rateLimitStore'[k] = rateLimitStore[k]]_vars

\* C30: for a POST /api/translate the coarse limiter is asked first: a
\* request it denies is not put to the strict limiter and changes nothing
\* in the store, and a request the strict limiter denies was let through by
\* the coarse one and has taken a slot of it, the strict limiter's entry
\* staying as it was.
C30_CoarseBeforeStrict ==
  [][Len(rlLog') = Len(rlLog) + 1 =>
       LET e == rlLog'[Len(rlLog')]
           coarse == ApiKey(e.ip)
       IN e.method = "POST" /\ e.path = "/api/translate" =>
            /\ e.api.asked
            /\ ~e.api.allowed =>
                 /\ ~e.tr.asked
                 /\ rateLimitStore' = rateLimitStore
            /\ e.tr.asked => e.api.allowed
            /\ e.tr.asked /\ ~e.tr.allowed =>
                 /\ coarse \in DOMAIN rateLimitStore'
                 /\ rateLimitStore'[coarse].count =
                      IF coarse \in DOMAIN rateLimitStore
                           /\ now <= rateLimitStore[coarse].resetTime
                      THEN rateLimitStore[coarse].count + 1
                      ELSE 1
                 /\ e.ip \in DOMAIN rateLimitStore
                 /\ rateLimitStore'[e.ip] = rateLimitStore[e.ip]
    ]_vars

\* the third translate request of a client in one window was denied by the
\* strict limiter and left the coarse limiter's window used up
C30_Witness ==
  /\ Len(rlLog) = TRANSLATE_MAX + 1
  /\ \A i \in 1..Len(rlLog) :
        /\ rlLog[i].ip = <<"7">>
        /\ rlLog[i].method = "POST"
        /\ rlLog[i].api.allowed
  /\ rlLog[Len(rlLog)].tr.asked
  /\ ~rlLog[Len(rlLog)].tr.allowed
  /\ rateLimitStore[ApiKey(<<"7">>)].count = TRANSLATE_MAX + 1
  /\ rateLimitStore[<<"7">>].count = TRANSLATE_MAX

(***************************************************************************)
(* Properties of the LRUCache, checked under CacheSpec and LruSpec         *)
(***************************************************************************)
\* C3: a get of a key whose last set stored v, with no eviction or expiry of
\* the entry in between, returns v while the entry's age does not exceed the
\* TTL, and absent once it does.
C3_SetThenGet ==
  lastOp.op = "get" /\ lastOp.tracked =>
    lastOp.ret = IF now - lastOp.written.time <= ttl
                 THEN [hit |-> TRUE, value |-> lastOp.written.value]
                 ELSE NoValue

\* a get returned the stored value of an entry whose age had reached the TTL
C3_Witness ==
  /\ lastOp.op = "get"
  /\ lastOp.tracked
  /\ ttl >= 1
  /\ now - lastOp.written.time = ttl
  /\ lastOp.ret = [hit |-> TRUE, value |-> lastOp.written.value]

\* C4: a set of a new key into a full cache removes exactly one entry, the one
\* accessed (set or hit by a get) least recently, and leaves the cache full.
C4_EvictsLeastRecentlyAccessed ==
  lastOp.op = "set" /\ lastOp.newKey /\ lastOp.sizeBefore = maxSize =>
    /\ Len(cache) = maxSize
    /\ lastOp.removed = {lastOp.lru}

\* C33: a set for a key that is already present only replaces that key's
\* value and timestamp: every other key stays in the cache with its entry
\* unchanged, also when the cache is at capacity.
C33_OverwriteKeepsOthers ==
  [][(lastOp'.op = "set" /\ KeyOf(lastOp'.args) \in CachedKeys(cache)) =>
       /\ KeyOf(lastOp'.args) \in CachedKeys(cache')
       /\ \A k \in CachedKeys(cache) \ {KeyOf(lastOp'.args)} :
             /\ k \in CachedKeys(cache')
             /\ EntryOf(cache', k) = EntryOf(cache, k)]_vars

\* C34: a cache hit changes only the entry's recency position: the hit entry
\* moves to the end of the Map with its value and its creation timestamp
\* unchanged, and every other entry and their order stay as they were; so
\* every cached entry carries the time of its last set, and a get later than
\* TTL after the last set returns absent and removes the entry, whatever
\* hits came in between.
C34_HitKeepsTimestamp ==
  /\ [](/\ \A a \in DOMAIN shadow :
              KeyOf(a) \in CachedKeys(cache) =>
                /\ EntryOf(cache, KeyOf(a)).timestamp = shadow[a].time
                /\ EntryOf(cache, KeyOf(a)).value = shadow[a].value
         /\ ((lastOp.op = "get" /\ lastOp.tracked
                /\ now - lastOp.written.time > ttl) =>
                 /\ lastOp.ret = NoValue
                 /\ KeyOf(lastOp.args) \notin CachedKeys(cache)))
  /\ [][(lastOp'.op = "get" /\ lastOp'.ret.hit) =>
          LET key == KeyOf(lastOp'.args)
          IN /\ CachedKeys(cache') = CachedKeys(cache)
             /\ \A k \in CachedKeys(cache) :
                   EntryOf(cache', k) = EntryOf(cache, k)
             /\ cache'[Len(cache')].key = key
             /\ MapDelete(cache', key) = MapDelete(cache, key)]_vars

\* a get hit an entry that was not the newest of a full cache of two, one
\* tick after the entry was set, and the entry still carries the time of
\* its set
C34_Witness ==
  /\ lastOp.op = "get"
  /\ lastOp.ret.hit
  /\ lastOp.tracked
  /\ lastOp.entryAge >= 1
  /\ ~lastOp.wasNewest
  /\ Len(cache) = 2
  /\ cache[2].key = KeyOf(lastOp.args)
  /\ cache[2].timestamp = now - lastOp.entryAge
  /\ cache[2].timestamp = lastOp.written.time

\* C6: a get that finds an entry older than the TTL returns absent and removes
\* the entry, however recently it was accessed; a get that returns a value
\* found an entry no older than the TTL.
C6_ExpiredNeverReturned ==
  /\ lastOp.op = "get" /\ lastOp.entryThere /\ lastOp.entryAge > ttl =>
       /\ lastOp.ret = NoValue
       /\ KeyOf(lastOp.args) \notin CachedKeys(cache)
  /\ lastOp.op = "get" /\ lastOp.ret.hit =>
       lastOp.entryThere /\ lastOp.entryAge <= ttl

\* a get found the most recently accessed entry expired, beside another entry
C6_Witness ==
  /\ lastOp.op = "get"
  /\ lastOp.entryThere
  /\ lastOp.entryAge > ttl
  /\ lastOp.wasNewest
  /\ lastOp.sizeBefore = 2
  /\ lastOp.ret = NoValue

(***************************************************************************)
(* Properties of the server, checked under Spec                            *)
(***************************************************************************)
\* C2: a request a rate limiter denied is answered 429 and its handling ends
\* there: no validation, no cache operation and no external call is made for
\* it, and no request in progress is one a limiter denied.
C2_DeniedConsumesNothing ==
  /\ \A r \in Slots : obs[r].denied = "no"
  /\ last.obs.denied # "no" =>
       /\ last.status = 429
       /\ ~last.obs.validated
       /\ last.obs.cacheOps = 0
       /\ last.obs.extCalls = 0
       /\ pc[last.slot] = "idle"

\* handleTranslate's own limiter denied a request while another was in progress
C2_Witness ==
  /\ last.obs.denied = "translate"
  /\ last.status = 429
  /\ \E r \in Slots : pc[r] = "awaitExt"

\* C5: the cache never holds more than CACHE_MAX_SIZE entries, whatever the
\* interleaving of the requests, and /api/health never reports a cacheSize
\* above maxCacheSize.
C5_CacheBounded ==
  /\ Len(cache) <= CACHE_MAX_SIZE
  /\ last.status = 200 /\ "cache" \in DOMAIN last.body =>
       last.body.cache.cacheSize <= last.body.cache.maxCacheSize

\* a translation was stored into a full cache in front of a pending request
C5_Witness ==
  /\ last.status = 200
  /\ last.obs.outcome = "text"
  /\ last.obs.cacheOps = 2
  /\ Len(cache) = CACHE_MAX_SIZE
  /\ cache[Len(cache)].value = last.body.translated
  /\ \E r \in Slots :
        /\ pc[r] = "awaitExt"
        /\ GenerateKey(call[r].text, call[r].mode, call[r].intent,
                       call[r].context) # cache[Len(cache)].key

\* C7: a request whose key has a fresh cache entry is answered 200 with that
\* entry's value and makes no external call.
C7_HitSkipsExternal ==
  /\ \A r \in Slots : obs[r].fresh.hit => obs[r].extCalls = 0
  /\ last.obs.fresh.hit =>
       /\ last.status = 200
       /\ last.body.translated = last.obs.fresh.value
       /\ last.obs.extCalls = 0

\* a request was answered from the cache
C7_Witness ==
  /\ last.obs.fresh.hit
  /\ last.status = 200
  /\ last.obs.cacheOps = 1
  /\ last.obs.extCalls = 0

\* C8: an empty or whitespace-only translation is never cached and never
\* returned: a blocked result is answered 500 with the blocked message, a
\* blank one 500 with the empty-response message, and every cached or
\* returned translation is non-empty and trimmed.
C8_NoEmptyTranslation ==
  /\ \A i \in 1..Len(cache) :
        /\ cache[i].value # <<>>
        /\ Trim(cache[i].value) = cache[i].value
  /\ last.obs.outcome = "blocked" =>
       last.status = 500 /\ last.body.error = MsgBlocked
  /\ last.obs.outcome = "blank" =>
       last.status = 500 /\ last.body.error = MsgEmpty
  /\ last.obs.outcome \in {"blocked", "blank"} => last.obs.cacheOps = 1
  /\ last.status = 200 /\ "translated" \in DOMAIN last.body =>
       last.body.translated # <<>>

\* the external call returned only whitespace and the request failed for it
C8_Witness ==
  /\ last.obs.outcome = "blank"
  /\ last.status = 500
  /\ last.body.error = MsgEmpty

\* C9: a request whose external call has not settled when the timeout fires
\* is answered 500 with the timeout message, having done nothing to the cache
\* but its lookup; when the call settles afterwards nothing is written to the
\* cache and no response is sent.
C9_TimeoutIgnoresLateResult ==
  /\ last.obs.timedOut =>
       /\ last.status = 500
       /\ last.body.error = MsgTimeout
       /\ last.obs.cacheOps = 1
       /\ pc[last.slot] = "abandoned"
  /\ last.obs.outcome = "late" =>
       /\ last.status = 0
       /\ last.obs.cacheOps = 0

\* the external call of a timed-out request settled afterwards
C9_Witness ==
  /\ last.obs.outcome = "late"
  /\ last.status = 0
  /\ pc[last.slot] = "idle"

\* C12: a translate request makes at most one external call; when that call
\* rejects or times out the request is answered 500 in the same step, with
\* no second call.
C12_AtMostOneExternalCall ==
  /\ \A r \in Slots : obs[r].extCalls <= 1
  /\ \A r \in Slots : pc[r] = "awaitExt" => obs[r].extCalls = 1
  /\ last.obs.extCalls <= 1
  /\ last.obs.outcome \in {"rejected", "timeout"} =>
       /\ last.status = 500
       /\ last.obs.extCalls = 1
       /\ pc[last.slot] # "awaitExt"

\* the external call of a request rejected and the request was answered 500
C12_Witness ==
  /\ last.obs.outcome = "rejected"
  /\ last.status = 500
  /\ last.obs.extCalls = 1
  /\ pc[last.slot] = "idle"

\* C15: a translate request whose body breaks a rule of the validator is
\* answered 400 without an external call and without any operation on the
\* cache, and no request in progress past its validation is invalid.
C15_InvalidFailsFast ==
  /\ \A r \in Slots : ~obs[r].invalid
  /\ last.obs.invalid =>
       /\ last.status = 400
       /\ last.obs.extCalls = 0
       /\ last.obs.cacheOps = 0
       /\ pc[last.slot] = "idle"
  /\ last.status = 400 => last.obs.extCalls = 0 /\ last.obs.cacheOps = 0

\* an invalid body was answered 400 while the cache held an entry
C15_Witness ==
  /\ last.obs.invalid
  /\ last.obs.validated
  /\ last.status = 400
  /\ Len(cache) = 1

\* C16: the validator runs before the translate limiter: a request whose
\* body is invalid is answered 400 and has taken no slot of that limiter.
C16_InvalidTakesNoSlot ==
  last.obs.invalid => last.status = 400 /\ ~last.obs.slotTaken

\* C19: however the handlers of one client's requests interleave at their
\* awaits, the translate limiter says yes to at most TRANSLATE_MAX requests
\* of one window, and no count in the store exceeds its limiter's maximum.
C19_GrantsWithinLimit ==
  /\ Len(rlLog) <= TRANSLATE_MAX
  /\ \A i \in 1..Len(rlLog) : rlLog[i].t <= rlLog[1].t + WINDOW_MS
  /\ \A k \in DOMAIN rateLimitStore :
        rateLimitStore[k].count <=
          (IF k = ApiKey(<<"7">>) THEN API_MAX ELSE TRANSLATE_MAX)

\* two requests of one client, both let through in one window, are in
\* progress at once and have used the window up
C19_Witness ==
  /\ Len(rlLog) = TRANSLATE_MAX
  /\ \A r \in Slots : pc[r] \in {"readBody", "awaitExt"} /\ obs[r].slotTaken
  /\ \E r \in Slots : pc[r] = "awaitExt"
  /\ <<"7">> \in DOMAIN rateLimitStore
  /\ now <= rateLimitStore[<<"7">>].resetTime
  /\ rateLimitStore[<<"7">>].count = TRANSLATE_MAX

\* C20: every translate call that reached its external call completes, with
\* a translation or with an error, even if the external call never settles:
\* the timer ends the wait.  A response to such a request is a 200 or a 500.
C20_CallCompletes ==
  /\ \A r \in Slots : (pc[r] = "awaitExt") ~> (pc[r] # "awaitExt")
  /\ [](last.obs.extCalls = 1 /\ last.status # 0 => last.status \in {200, 500})

\* a call whose external call had not settled was ended by its timer
C20_Witness ==
  /\ last.obs.timedOut
  /\ last.status = 500
  /\ last.body.error = MsgTimeout
  /\ now = MaxTime

\* the entries of a cache, as a set
Entries(c) == {c[i] : i \in 1..Len(c)}

\* the steps a translate call may take: fetch to the body, the body to the
\* response (invalid, cache hit) or to the external call, the external call
\* to the response or, when the timer wins, to the abandoned call that
\* settles later
CallTransitions ==
  {<<"idle", "readBody">>, <<"readBody", "idle">>, <<"readBody", "awaitExt">>,
   <<"awaitExt", "idle">>, <<"awaitExt", "abandoned">>, <<"abandoned", "idle">>}

\* C21: a translate call takes only the steps validated, cache lookup, then
\* hit and done, or miss and external call, then success, store and done, or
\* failure and mapped error.  An entry comes into the cache only in the step
\* in which a call's own external call succeeded and it answers 200; a step
\* that starts the external call leaves the cache as it was or without the
\* one expired entry it looked up; a step that answers with an error, and
\* the late settling of an abandoned call, leave the cache as it was.
C21_CallStateMachine ==
  [][/\ \A r \in Slots : pc'[r] # pc[r] => <<pc[r], pc'[r]>> \in CallTransitions
     /\ Entries(cache') \ Entries(cache) # {} =>
          /\ last'.status = 200
          /\ last'.obs.outcome = "text"
          /\ last'.obs.extCalls = 1
          /\ pc[last'.slot] = "awaitExt"
          /\ pc'[last'.slot] = "idle"
          /\ Entries(cache') \ Entries(cache) =
               {[key |-> GenerateKey(call[last'.slot].text, call[last'.slot].mode,
                                     call[last'.slot].intent,
                                     call[last'.slot].context),
                 value |-> last'.body.translated, timestamp |-> now]}
     /\ \A r \in Slots : pc[r] = "readBody" /\ pc'[r] = "awaitExt" =>
          \/ cache' = cache
          \/ \E i \in 1..Len(cache) :
                /\ now - cache[i].timestamp > ttl
                /\ cache' = MapDelete(cache, cache[i].key)
     /\ last'.status \in {400, 404, 429, 500} => cache' = cache
     /\ last'.obs.outcome = "late" => cache' = cache
    ]_vars

\* a call whose external call rejected was answered 500 beside a cached entry
C21_Witness ==
  /\ last.status = 500
  /\ last.obs.outcome = "rejected"
  /\ last.obs.cacheOps = 1
  /\ Len(cache) = 1

\* C22: every error response (400, 404, 413, 429, 500) has a body with the
\* one field error and no other.
C22_ErrorEnvelope ==
  last.status \in {400, 404, 413, 429, 500} => DOMAIN last.body = {"error"}

\* the ten messages translateToSarcasm's catch block can map an error to
UserMessages ==
  {MsgBlocked, MsgEmpty, MsgTimeout, Msg429, Msg401, Msg403, Msg500, Msg503,
   MsgNetwork, MsgFallback}

\* C10: whatever the failure of the external call, the message of a 500
\* response is one of the fixed user-facing messages.
C10_OnlyUserMessages ==
  last.status = 500 => last.body.error \in UserMessages

====
